---------------------------- MODULE Spec2Model ----------------------------
(***************************************************************************)
(* A model of the summarization core of the Research-Paper-Summarizer      *)
(* backend: SectionDetector (services/section_detector.py), ChunkManager   *)
(* (services/chunk_manager.py) and GeminiClient (services/gemini_client.py)*)
(*                                                                         *)
(* Representation of strings.                                              *)
(*  - The detector reads its text line by line, so a text is a non-empty   *)
(*    sequence of line records (what text.split('\n') returns).  A line is *)
(*    lead whitespace, a body that starts and ends with a non-whitespace   *)
(*    character, and trailing whitespace; body = 0 is a blank line.  A     *)
(*    line also carries what the regular expressions and the string tests  *)
(*    of the detector see in it: the section types whose patterns match,   *)
(*    the type whose canonical name the line spells, whether it starts     *)
(*    with a digit, whether it is upper case.                              *)
(*  - A section's content is a slice of the text, kept as the slice's      *)
(*    bounds and the operations applied to it afterwards.                  *)
(*  - Confidence is kept in tenths (0.5 is 5), decimal and exact.          *)
(***************************************************************************)
EXTENDS Integers, Sequences, FiniteSets, TLC

VARIABLES
    text,          \* detector: the input text, a sequence of lines
    dpc,           \* detector: "input" while the text is built, then "done"
    sections,      \* detector: the list detect_sections returned
    csections,     \* chunker: the sections given to create_chunks
    cpc,           \* chunker: where the pipeline of summarize_pdf stands
    si,            \* chunker: index of the section the loop of create_chunks is at
    all_chunks,    \* chunker: all_chunks of create_chunks
    global_chunk_index,
    current_pos,   \* chunker: current_pos of _split_large_section
    chunks,        \* chunker: chunks of _split_large_section
    chunk_index,   \* chunker: chunk_index of _split_large_section
    valid_chunks,  \* chunker: what validate_chunks returned
    optimized,     \* chunker: what optimize_chunks_for_ai returned
    call_type,     \* adapter: call_type of _make_api_call
    apc,           \* adapter: where _make_api_call stands
    attempt,       \* adapter: attempt of the loop of _make_api_call
    calls,         \* adapter: how many times generate_content was called
    last_exception,
    delays,        \* adapter: the delays slept, in order
    backend_log,   \* adapter: what each call of generate_content ended with
    result,        \* adapter: the content of the GeminiResponse returned
    error,         \* adapter: the exception _make_api_call raised
    summary_text,  \* parser: the aggregated text, a sequence of lines
    ppc,           \* parser: "input" while the text is built, then "done"
    parsed,        \* parser: what _parse_structured_summary returned
    chunk_list,    \* orchestrator: the chunks given to generate_summary
    opc,           \* orchestrator: where generate_summary stands
    workers,       \* orchestrator: the _summarize_single_chunk of each chunk
    semaphore,     \* orchestrator: the free slots of the semaphore
    threads,       \* orchestrator: the calls whose generate_content runs in a
                   \* thread: the place of a chunk, 0 for the aggregate call
    agg,           \* orchestrator: the aggregate_summaries call
    chunk_summaries,
    summary_result,
    raised,        \* orchestrator: the exception generate_summary raised
    backend_called,\* orchestrator: generate_content was called at least once
    agg_calls,     \* orchestrator: how many times aggregate_summaries was called
    agg_prompt,    \* orchestrator: the summaries the prompt of that call carries
    out_of_order,  \* orchestrator: a worker ended before one of a chunk before it
    summaries,     \* prompt: the summaries given to _build_aggregation_prompt
    prompt_pc,     \* prompt: "input" while the list is built, then "done"
    unique_summaries \* prompt: the summaries the prompt carries

detVars == <<text, dpc, sections>>
chunkVars == <<csections, cpc, si, all_chunks, global_chunk_index, current_pos,
               chunks, chunk_index, valid_chunks, optimized>>
gemVars == <<call_type, apc, attempt, calls, last_exception, delays, backend_log,
             result, error>>
parseVars == <<summary_text, ppc, parsed>>
orchVars == <<chunk_list, opc, workers, semaphore, threads, agg, chunk_summaries,
              summary_result, raised, backend_called, agg_calls, agg_prompt,
              out_of_order>>
sumVars == <<parseVars, orchVars>>
promptVars == <<summaries, prompt_pc, unique_summaries>>
vars == <<detVars, chunkVars, gemVars, sumVars, promptVars>>

---------------------------------------------------------------------------
(* Generic helpers *)

Max(a, b) == IF a >= b THEN a ELSE b
Min(a, b) == IF a <= b THEN a ELSE b

RECURSIVE SumRange(_, _, _)
\* f[lo] + ... + f[hi], by halves
SumRange(f, lo, hi) ==
    IF lo > hi THEN 0
    ELSE IF lo = hi THEN f[lo]
    ELSE LET mid == (lo + hi) \div 2
         IN  SumRange(f, lo, mid) + SumRange(f, mid + 1, hi)

\* f[1] + ... + f[n]
SumTo(f, n) == SumRange(f, 1, n)

---------------------------------------------------------------------------
(* SectionDetector *)

\* SectionType, in the order of the pattern registry (its iteration order).
SectionTypeOrder ==
    << "abstract", "introduction", "methodology", "results", "discussion",
       "conclusion", "references", "acknowledgments", "appendix" >>

SectionTypes == { SectionTypeOrder[i] : i \in 1..Len(SectionTypeOrder) }

TypeRank(t) == CHOOSE i \in 1..Len(SectionTypeOrder) : SectionTypeOrder[i] = t

\* section_type.value.title()
Title(t) ==
    CASE t = "abstract" -> "Abstract"
      [] t = "introduction" -> "Introduction"
      [] t = "methodology" -> "Methodology"
      [] t = "results" -> "Results"
      [] t = "discussion" -> "Discussion"
      [] t = "conclusion" -> "Conclusion"
      [] t = "references" -> "References"
      [] t = "acknowledgments" -> "Acknowledgments"
      [] t = "appendix" -> "Appendix"
      [] OTHER -> "Unknown"

min_section_length == 50
max_section_length == 50000

\* Confidence threshold of _filter_markers, 0.4 in tenths.
MinConfidence == 4

LineLen(l) == l.lead + l.body + l.trail

\* len(text): the lines and the '\n' between them.
TextLen(t) == SumTo([i \in 1..Len(t) |-> LineLen(t[i])], Len(t)) + (Len(t) - 1)

\* Offset of the first character of line k (1-based): current_pos in
\* _find_section_markers when the loop reaches the line.
LinePos(t, k) == SumTo([i \in 1..Len(t) |-> LineLen(t[i]) + 1], k - 1)

\* text[..].strip() over whole lines first..last of t: the bounds of the
\* slice from the first to the last non-whitespace character; an empty
\* slice (from = to) when the lines hold no such character.
StripLines(t, first, last) ==
    LET full == { k \in first..last : k >= 1 /\ k <= Len(t) /\ t[k].body > 0 }
    IN  IF full = {}
        THEN [from |-> 0, to |-> 0]
        ELSE LET f == CHOOSE k \in full : \A j \in full : k <= j
                 l == CHOOSE k \in full : \A j \in full : k >= j
             IN  [from |-> LinePos(t, f) + t[f].lead,
                  to   |-> LinePos(t, l) + t[l].lead + t[l].body]

SpanLen(c) == c.to - c.from

\* A content string: the slice text[from:to], then [:max_section_length]
\* + "..." when ellipsis, then _clean_section_content when cleaned.
Content(span) == [from |-> span.from, to |-> span.to,
                  ellipsis |-> FALSE, cleaned |-> FALSE]

\* len(content) of a content that was not cleaned.
ContentLen(c) == SpanLen(c) + (IF c.ellipsis THEN 3 ELSE 0)

_create_unknown_section(t, start, end) ==
    [name |-> "Full Text", section_type |-> "unknown",
     content |-> Content(StripLines(t, 1, Len(t))),
     start_position |-> start, end_position |-> end, confidence |-> 10]

\* The first type, in registry order, one of whose patterns matches the line.
FirstMatch(l) ==
    CHOOSE ty \in l.matches : \A u \in l.matches : TypeRank(ty) <= TypeRank(u)

\* line_idx is 0-based as in the code; relative_pos = line_idx / total_lines.
_calculate_confidence(l, ty, line_idx, total_lines) ==
    LET exact    == IF l.exactOf = ty THEN 3 ELSE 0
        numbered == IF l.numbered THEN 2 ELSE 0
        short    == IF l.body < 30 THEN 2 ELSE 0
        upper    == IF l.upper THEN 1 ELSE 0
        posi     == IF ty = "abstract" /\ 10 * line_idx < 2 * total_lines THEN 2
                    ELSE IF ty = "introduction" /\ 10 * line_idx < 3 * total_lines THEN 1
                    ELSE IF ty = "conclusion" /\ 10 * line_idx > 7 * total_lines THEN 2
                    ELSE IF ty = "references" /\ 10 * line_idx > 8 * total_lines THEN 3
                    ELSE 0
    IN  Min(5 + exact + numbered + short + upper + posi, 10)

RECURSIVE RawMarkers(_, _)
\* The markers list of _find_section_markers after lines 1..k: one marker
\* for each non-blank line matched by some pattern, in line order.
RawMarkers(t, k) ==
    IF k = 0 THEN << >>
    ELSE LET l == t[k]
         IN  IF l.body > 0 /\ l.matches # {}
             THEN Append(RawMarkers(t, k - 1),
                         [pos |-> LinePos(t, k), line |-> k,
                          section_type |-> FirstMatch(l),
                          confidence |-> _calculate_confidence(l, FirstMatch(l), k - 1, Len(t))])
             ELSE RawMarkers(t, k - 1)

RECURSIVE SeenTypes(_, _)
\* seen_types of _filter_markers after the first k filtered markers: for
\* each type the index of the marker kept (a later one replaces it only
\* with a strictly higher confidence).
SeenTypes(ms, k) ==
    IF k = 0 THEN [ty \in {} |-> 0]
    ELSE LET seen == SeenTypes(ms, k - 1)
             ty   == ms[k].section_type
         IN  IF ty \notin DOMAIN seen \/ ms[k].confidence > ms[seen[ty]].confidence
             THEN [u \in DOMAIN seen \cup {ty} |-> IF u = ty THEN k ELSE seen[u]]
             ELSE seen

\* The subsequence of s at the indices in keep, in order.
RECURSIVE SubSeqAt(_, _, _)
SubSeqAt(s, keep, k) ==
    IF k = 0 THEN << >>
    ELSE IF k \in keep THEN Append(SubSeqAt(s, keep, k - 1), s[k])
         ELSE SubSeqAt(s, keep, k - 1)

\* seen_types.values() in the dict's own (insertion) order: the result
\* without its final sort by position.
RECURSIVE InsertionOrder(_, _)
InsertionOrder(ms, k) ==
    IF k = 0 THEN << >>
    ELSE LET before == InsertionOrder(ms, k - 1)
             ty     == ms[k].section_type
             at     == { i \in 1..Len(before) : before[i].section_type = ty }
         IN  IF at = {} THEN Append(before, ms[k])
             ELSE IF \A i \in at : ms[k].confidence > before[i].confidence
                  THEN [i \in 1..Len(before) |-> IF i \in at THEN ms[k] ELSE before[i]]
                  ELSE before

\* Mutant: the markers are not sorted by position after deduplication.
_filter_markers_unsorted(markers) ==
    IF markers = << >> THEN << >>
    ELSE LET filtered == SelectSeq(markers, LAMBDA m : m.confidence >= MinConfidence)
         IN  InsertionOrder(filtered, Len(filtered))

_filter_markers(markers) ==
    IF markers = << >> THEN << >>
    ELSE LET filtered == SelectSeq(markers, LAMBDA m : m.confidence >= MinConfidence)
             seen     == SeenTypes(filtered, Len(filtered))
             keep     == { seen[ty] : ty \in DOMAIN seen }
         IN  SubSeqAt(filtered, keep, Len(filtered))  \* sorted by position

_find_section_markers(t) == _filter_markers(RawMarkers(t, Len(t)))

RECURSIVE SectionsFrom(_, _, _)
\* _create_sections_from_markers over markers 1..i.
SectionsFrom(t, markers, i) ==
    IF i = 0 THEN << >>
    ELSE LET m       == markers[i]
             end_pos == IF i + 1 <= Len(markers) THEN markers[i + 1].pos ELSE TextLen(t)
             endLine == IF i + 1 <= Len(markers) THEN markers[i + 1].line - 1 ELSE Len(t)
             \* the stripped slice without its first line, the header
             body    == StripLines(t, m.line + 1, endLine)
             rest    == SectionsFrom(t, markers, i - 1)
         IN  IF SpanLen(body) >= min_section_length
             THEN Append(rest,
                         [name |-> Title(m.section_type),
                          section_type |-> m.section_type,
                          content |-> Content(body),
                          start_position |-> m.pos, end_position |-> end_pos,
                          confidence |-> m.confidence])
             ELSE rest

_create_sections_from_markers(t, markers) == SectionsFrom(t, markers, Len(markers))

\* Mutant: the type is compared with the section's name, which never equals it.
_filter_references_by_name(secs) ==
    SelectSeq(secs, LAMBDA s : s.name # "references")

_filter_references_section(secs) ==
    SelectSeq(secs, LAMBDA s : s.section_type # "references")

_clean_section_content(c) == [c EXCEPT !.cleaned = TRUE]

RECURSIVE ValidateFrom(_, _)
ValidateFrom(secs, i) ==
    IF i = 0 THEN << >>
    ELSE LET s    == secs[i]
             rest == ValidateFrom(secs, i - 1)
         IN  IF ContentLen(s.content) < min_section_length
             THEN rest
             ELSE LET cut == IF ContentLen(s.content) > max_section_length
                             THEN [s.content EXCEPT !.to = s.content.from + max_section_length,
                                                    !.ellipsis = TRUE]
                             ELSE s.content
                  IN  Append(rest, [s EXCEPT !.content = _clean_section_content(cut)])

_validate_sections(secs) == ValidateFrom(secs, Len(secs))

\* Mutant: no guard for an empty or too short text.
detect_sections_unguarded(t) ==
    LET section_markers == _find_section_markers(t)
    IN  IF section_markers = << >>
        THEN << _create_unknown_section(t, 0, TextLen(t)) >>
        ELSE _validate_sections(
                 _filter_references_section(
                     _create_sections_from_markers(t, section_markers)))

detect_sections(t) ==
    IF TextLen(t) = 0 \/ SpanLen(StripLines(t, 1, Len(t))) < min_section_length
    THEN << _create_unknown_section(t, 0, TextLen(t)) >>
    ELSE LET section_markers == _find_section_markers(t)
         IN  IF section_markers = << >>
             THEN << _create_unknown_section(t, 0, TextLen(t)) >>
             ELSE _validate_sections(
                      _filter_references_section(
                          _create_sections_from_markers(t, section_markers)))

---------------------------------------------------------------------------
(* Detector inputs *)

MaxLines == 5

BlankLine(n) == [lead |-> n, body |-> 0, trail |-> 0, matches |-> {},
                 exactOf |-> "none", numbered |-> FALSE, upper |-> FALSE]
PlainLine(a, b, c) == [lead |-> a, body |-> b, trail |-> c, matches |-> {},
                       exactOf |-> "none", numbered |-> FALSE, upper |-> FALSE]

\* The lines a text is built of.
LineKinds ==
    { BlankLine(0),
      PlainLine(2, 60, 1),
      PlainLine(0, 50010, 0),
      \* "Abstract"
      [lead |-> 0, body |-> 8, trail |-> 0, matches |-> {"abstract"},
       exactOf |-> "abstract", numbered |-> FALSE, upper |-> FALSE],
      \* "  3. RESULTS AND DISCUSSION "
      [lead |-> 2, body |-> 25, trail |-> 1, matches |-> {"results", "discussion"},
       exactOf |-> "none", numbered |-> TRUE, upper |-> TRUE],
      \* "References"
      [lead |-> 0, body |-> 10, trail |-> 0, matches |-> {"references"},
       exactOf |-> "references", numbered |-> FALSE, upper |-> FALSE],
      \* a sentence of prose that has the words "summary" and "results" in it
      [lead |-> 0, body |-> 70, trail |-> 0, matches |-> {"abstract", "results"},
       exactOf |-> "none", numbered |-> FALSE, upper |-> FALSE] }

DetInit ==
    /\ text \in { <<l>> : l \in LineKinds }
    /\ dpc = "input"
    /\ sections = << >>

\* The detector when a specification is about another component.
DetIdle ==
    /\ text = << BlankLine(0) >>
    /\ dpc = "idle"
    /\ sections = << >>

\* One more line of input.
AppendLine ==
    /\ dpc = "input"
    /\ Len(text) < MaxLines
    /\ \E l \in LineKinds : text' = Append(text, l)
    /\ UNCHANGED <<dpc, sections, chunkVars, gemVars, sumVars, promptVars>>

DetectSections ==
    /\ dpc = "input"
    /\ sections' = detect_sections(text)
    /\ dpc' = "done"
    /\ UNCHANGED <<text, chunkVars, gemVars, sumVars, promptVars>>

DetNext == AppendLine \/ DetectSections

---------------------------------------------------------------------------
(* Strings of ChunkManager and GeminiClient                                *)
(*                                                                         *)
(* A string is kept run-length encoded: a sequence of runs [c, n], n >= 1  *)
(* characters of class c, adjacent runs of different classes.  The classes *)
(* are what the code's string tests tell apart:                            *)
(*   "s"  a space or a tab          "n"  a line break '\n'                 *)
(*   "p"  one of . ! ?              "x"  an asterisk                       *)
(*   "a"  any other character                                              *)
(* Lengths and offsets are the real ones.                                  *)

Run(c, n) == [c |-> c, n |-> n]

IsWs(c) == c \in {"s", "n"}

RECURSIVE Norm(_)
\* The canonical encoding: no empty run, no two adjacent runs of one
\* class.  The two halves are encoded and joined.
Norm(t) ==
    IF Len(t) = 0 THEN << >>
    ELSE IF Len(t) = 1 THEN (IF t[1].n = 0 THEN << >> ELSE t)
    ELSE LET mid == Len(t) \div 2
             a == Norm(SubSeq(t, 1, mid))
             b == Norm(SubSeq(t, mid + 1, Len(t)))
         IN  IF a # << >> /\ b # << >> /\ a[Len(a)].c = b[1].c
             THEN SubSeq(a, 1, Len(a) - 1)
                    \o << Run(b[1].c, a[Len(a)].n + b[1].n) >> \o Tail(b)
             ELSE a \o b

\* len(t)
RLen(t) == SumTo([i \in 1..Len(t) |-> t[i].n], Len(t))

\* a + b
Cat(a, b) == Norm(a \o b)

RECURSIVE Repeat(_, _)
\* t * k, by doubling
Repeat(t, k) ==
    IF k = 0 THEN << >>
    ELSE IF k = 1 THEN Norm(t)
    ELSE LET half == Repeat(t, k \div 2)
         IN  IF k % 2 = 0 THEN Cat(half, half) ELSE Cat(Cat(half, half), t)

RECURSIVE Take(_, _)
\* t[:k], by halves
Take(t, k) ==
    IF k <= 0 \/ t = << >> THEN << >>
    ELSE IF Len(t) = 1 THEN << Run(t[1].c, Min(t[1].n, k)) >>
    ELSE LET mid == Len(t) \div 2
             a == SubSeq(t, 1, mid)
         IN  IF k <= RLen(a) THEN Take(a, k)
             ELSE a \o Take(SubSeq(t, mid + 1, Len(t)), k - RLen(a))

RECURSIVE Drop(_, _)
\* t[k:], by halves
Drop(t, k) ==
    IF k <= 0 \/ t = << >> THEN t
    ELSE IF Len(t) = 1 THEN (IF t[1].n > k THEN << Run(t[1].c, t[1].n - k) >> ELSE << >>)
    ELSE LET mid == Len(t) \div 2
             a == SubSeq(t, 1, mid)
             b == SubSeq(t, mid + 1, Len(t))
         IN  IF k >= RLen(a) THEN Drop(b, k - RLen(a)) ELSE Drop(a, k) \o b

\* A slice index as Python reads it: a negative one counts from the end,
\* and every index is clipped to [0, len].
PyIndex(i, len) == IF i < 0 THEN Max(len + i, 0) ELSE Min(i, len)

\* t[a:b]
Slice(t, a, b) ==
    LET lo == PyIndex(a, RLen(t))
        hi == PyIndex(b, RLen(t))
    IN  IF lo >= hi THEN << >> ELSE Take(Drop(t, lo), hi - lo)

RECURSIVE LStrip(_)
LStrip(t) == IF t # << >> /\ IsWs(Head(t).c) THEN LStrip(Tail(t)) ELSE t

RECURSIVE RStrip(_)
RStrip(t) ==
    IF t # << >> /\ IsWs(t[Len(t)].c) THEN RStrip(SubSeq(t, 1, Len(t) - 1)) ELSE t

\* t.strip()
Strip(t) == RStrip(LStrip(t))

\* Offset of the first character of run i.
Off(t, i) == SumTo([j \in 1..Len(t) |-> t[j].n], i - 1)

SetMax(S) == CHOOSE x \in S : \A y \in S : x >= y
SetMin(S) == CHOOSE x \in S : \A y \in S : x <= y

\* The last run of the whitespace that starts at run j.
WsGroupEnd(t, j) ==
    SetMax({ k \in j..Len(t) : \A m \in j..k : IsWs(t[m].c) })

\* The runs at which a match of [.!?]+\s+ starts: a run of terminators
\* with whitespace after it.
SentenceStarts(t) ==
    { i \in 1..Len(t) : t[i].c = "p" /\ i < Len(t) /\ IsWs(t[i + 1].c) }

\* The runs at which a stretch of whitespace starts.
WsStarts(t) ==
    { i \in 1..Len(t) : IsWs(t[i].c) /\ (i = 1 \/ ~IsWs(t[i - 1].c)) }

\* The line breaks in the whitespace that starts at run g.
NewlinesIn(t, g) ==
    SumTo([j \in 1..Len(t) |-> IF j >= g /\ j <= WsGroupEnd(t, g) /\ t[j].c = "n"
                               THEN t[j].n ELSE 0], Len(t))

\* The stretches of whitespace that hold a match of \n\s*\n: two line
\* breaks, with only whitespace between them.
ParagraphStarts(t) == { g \in WsStarts(t) : NewlinesIn(t, g) >= 2 }

\* The runs at which a word of t.split() starts.
WordStarts(t) ==
    { i \in 1..Len(t) : ~IsWs(t[i].c) /\ (i = 1 \/ IsWs(t[i - 1].c)) }

\* len(t.split())
WordCount(t) == Cardinality(WordStarts(t))

\* The characters of the words that start before run i.
WordCharsBefore(t, i) ==
    SumTo([j \in 1..Len(t) |-> IF j < i /\ ~IsWs(t[j].c) THEN t[j].n ELSE 0], Len(t))

---------------------------------------------------------------------------
(* ChunkManager *)

max_chunk_size == 10000
min_chunk_size == 100
overlap_size == 200

\* _find_optimal_break_point searches the last max_chunk_size // 5 characters.
SearchDivisor == 5

\* validate_chunks drops a chunk of fewer words.
MinWords == 10

_find_optimal_break_point(txt, start, max_end) ==
    LET search_start == max_end - (max_chunk_size \div SearchDivisor)
        region == Slice(txt, search_start, max_end)
        window == Slice(txt, start, max_end)
        breaks == { j \in 1..Len(region) : region[j].c = "n" }
    IN  IF SentenceStarts(region) # {}
        THEN \* the end of the last match of [.!?]+\s+
             search_start
               + Off(region, WsGroupEnd(region, SetMax(SentenceStarts(region)) + 1) + 1)
        ELSE IF ParagraphStarts(region) # {}
        THEN \* the start of the last match of \n\s*\n: its first line break
             LET g == SetMax(ParagraphStarts(region))
             IN  search_start
                   + Off(region, SetMin({ j \in g..WsGroupEnd(region, g) : region[j].c = "n" }))
        ELSE IF breaks # {}
        THEN \* the last line break
             search_start + Off(region, SetMax(breaks)) + region[SetMax(breaks)].n - 1
        ELSE IF WordCount(window) > 1
        THEN \* start + len(' '.join(words[:-1])), at most max_end - 1
             Min(start + WordCharsBefore(window, SetMax(WordStarts(window)))
                       + (WordCount(window) - 2),
                 max_end - 1)
        ELSE max_end

\* Mutant: sentence_count is the count of sentence ends found.
_create_chunk_counted(content, section, section_type, index) ==
    [content |-> content,
     section |-> section,
     section_type |-> section_type,
     chunk_index |-> index,
     character_count |-> RLen(content),
     word_count |-> WordCount(content),
     sentence_count |-> Cardinality(SentenceStarts(content))]

_create_chunk(content, section, section_type, index) ==
    [content |-> content,
     section |-> section,
     section_type |-> section_type,
     chunk_index |-> index,
     character_count |-> RLen(content),
     word_count |-> WordCount(content),
     \* the matches of [.!?]+\s+ in content + ' ', at least 1
     sentence_count |-> Max(Cardinality(SentenceStarts(Cat(content, << Run("s", 1) >>))), 1)]

\* One pass of the while loop of _split_large_section over content, from
\* position pos: where the chunk ends.
ChunkEnd(content, pos) ==
    LET chunk_end == Min(pos + max_chunk_size, RLen(content))
    IN  IF chunk_end < RLen(content)
        THEN _find_optimal_break_point(content, pos, chunk_end)
        ELSE chunk_end

\* Mutant: the step back by overlap_size without the guaranteed advance.
NextPos_overlap_only(pos, chunk_end) == chunk_end - overlap_size

\* The position the loop moves to after a chunk that ends at chunk_end.
NextPos(pos, chunk_end) == Max(chunk_end - overlap_size, pos + min_chunk_size)

\* Mutant: every pass of the loop takes an index.
NextChunkIndex_every_pass(index, appended) == index + 1

\* chunk_index after a pass of the loop: it counts the chunks appended.
NextChunkIndex(index, appended) == IF appended THEN index + 1 ELSE index

\* The text of a section's name.
NameText(name) ==
    CASE name = "Full Text" -> << Run("a", 4), Run("s", 1), Run("a", 4) >>
      [] name = "Full Document" -> << Run("a", 4), Run("s", 1), Run("a", 8) >>
      [] name = "Abstract" -> << Run("a", 8) >>
      [] name = "Introduction" -> << Run("a", 12) >>
      [] name = "Methodology" -> << Run("a", 11) >>
      [] name = "Results" -> << Run("a", 7) >>
      [] name = "Discussion" -> << Run("a", 10) >>
      [] name = "Conclusion" -> << Run("a", 10) >>
      [] name = "References" -> << Run("a", 10) >>
      [] name = "Acknowledgments" -> << Run("a", 15) >>
      [] name = "Appendix" -> << Run("a", 8) >>

\* f"[Section: {name}]\n\n"
ContextPrefix(name) ==
    Cat(<< Run("a", 9), Run("s", 1) >>, Cat(NameText(name), << Run("a", 1), Run("n", 2) >>))

\* Mutant: the header is prepended to the whole content, whatever its length.
OptimizeChunk_untruncated(chunk) ==
    LET optimized_content == Cat(ContextPrefix(chunk.section), chunk.content)
    IN  [content |-> optimized_content,
         section |-> chunk.section,
         section_type |-> chunk.section_type,
         chunk_index |-> chunk.chunk_index,
         character_count |-> RLen(optimized_content),
         word_count |-> WordCount(optimized_content),
         sentence_count |-> chunk.sentence_count]

OptimizeChunk(chunk) ==
    LET context_prefix == ContextPrefix(chunk.section)
        available_space == max_chunk_size - RLen(context_prefix)
        optimized_content ==
            IF RLen(chunk.content) > available_space
            THEN Cat(context_prefix,
                     Cat(Slice(chunk.content, 0, available_space - 3), << Run("p", 3) >>))
            ELSE Cat(context_prefix, chunk.content)
    IN  [content |-> optimized_content,
         section |-> chunk.section,
         section_type |-> chunk.section_type,
         chunk_index |-> chunk.chunk_index,
         character_count |-> RLen(optimized_content),
         word_count |-> WordCount(optimized_content),
         sentence_count |-> chunk.sentence_count]

optimize_chunks_for_ai(cs) == [i \in 1..Len(cs) |-> OptimizeChunk(cs[i])]

KeepChunk(chunk) ==
    /\ ~(chunk.character_count > max_chunk_size)
    /\ ~(chunk.character_count < min_chunk_size)
    /\ Strip(chunk.content) # << >>
    /\ ~(chunk.word_count < MinWords)

validate_chunks(cs) == SelectSeq(cs, KeepChunk)

---------------------------------------------------------------------------
(* ChunkManager inputs *)

MaxSections == 2

\* k words of n characters, one space after each.
Words(k, n) == Repeat(<< Run("a", n), Run("s", 1) >>, k)

\* The sections given to create_chunks.
SectionKinds ==
    { \* no content
      [name |-> "Appendix", section_type |-> "appendix", content |-> << >>],
      \* 150 characters, all of them whitespace
      [name |-> "Acknowledgments", section_type |-> "acknowledgments",
       content |-> << Run("s", 100), Run("n", 50) >>],
      \* 99 characters
      [name |-> "Abstract", section_type |-> "abstract", content |-> << Run("a", 99) >>],
      \* 100 characters in 10 words, whitespace around them
      [name |-> "Conclusion", section_type |-> "conclusion",
       content |-> Cat(<< Run("s", 3) >>, Cat(Words(9, 9), << Run("a", 10), Run("n", 1) >>))],
      \* 12 sentences of one word, 120 characters
      [name |-> "Introduction", section_type |-> "introduction",
       content |-> Repeat(<< Run("a", 8), Run("p", 1), Run("s", 1) >>, 12)],
      \* 10,000 characters in 12 words
      [name |-> "Full Text", section_type |-> "unknown",
       content |-> Cat(Words(11, 8), << Run("a", 9901) >>)],
      \* 25,000 characters and no whitespace
      [name |-> "Methodology", section_type |-> "methodology",
       content |-> << Run("a", 25000) >>],
      \* a word of 2 characters, a space, a word of 20,000
      [name |-> "Results", section_type |-> "results",
       content |-> << Run("a", 2), Run("s", 1), Run("a", 20000) >>],
      \* 12,003 characters: three words of 4,000, two spaces after the first
      [name |-> "Full Document", section_type |-> "unknown",
       content |-> << Run("a", 4000), Run("s", 2), Run("a", 4000), Run("s", 1),
                      Run("a", 4000) >>],
      \* 31,006 characters: 11 words, a sentence that ends at 9,501, a blank
      \* line at 18,001, a line break at 26,005
      [name |-> "Discussion", section_type |-> "discussion",
       content |-> Cat(Words(11, 8),
                       << Run("a", 9400), Run("p", 1), Run("s", 1),
                          Run("a", 8500), Run("n", 1), Run("s", 2), Run("n", 1),
                          Run("a", 8000), Run("n", 1), Run("a", 5000) >>)] }

ChunkInit ==
    /\ csections = << >>
    /\ cpc = "input"
    /\ si = 0
    /\ all_chunks = << >>
    /\ global_chunk_index = 0
    /\ current_pos = 0
    /\ chunks = << >>
    /\ chunk_index = 0
    /\ valid_chunks = << >>
    /\ optimized = << >>

\* The chunker when a specification is about another component.
ChunkIdle ==
    /\ csections = << >>
    /\ cpc = "idle"
    /\ si = 0
    /\ all_chunks = << >>
    /\ global_chunk_index = 0
    /\ current_pos = 0
    /\ chunks = << >>
    /\ chunk_index = 0
    /\ valid_chunks = << >>
    /\ optimized = << >>

\* One more section in the list given to create_chunks.
AddSection ==
    /\ cpc = "input"
    /\ Len(csections) < MaxSections
    /\ \E s \in SectionKinds : csections' = Append(csections, s)
    /\ UNCHANGED <<cpc, si, all_chunks, global_chunk_index, current_pos, chunks,
                   chunk_index, valid_chunks, optimized, detVars, gemVars, sumVars, promptVars>>

\* create_chunks is called: an empty list is returned at once.
CreateChunks ==
    /\ cpc = "input"
    /\ IF csections = << >> THEN cpc' = "created" ELSE cpc' = "loop"
    /\ si' = 1
    /\ all_chunks' = << >>
    /\ global_chunk_index' = 0
    /\ UNCHANGED <<csections, current_pos, chunks, chunk_index, valid_chunks,
                   optimized, detVars, gemVars, sumVars, promptVars>>

\* The loop of create_chunks skips a section without 100 trimmed characters.
SkipSection ==
    /\ cpc = "loop"
    /\ si <= Len(csections)
    /\ csections[si].content = << >> \/ RLen(Strip(csections[si].content)) < min_chunk_size
    /\ si' = si + 1
    /\ UNCHANGED <<csections, cpc, all_chunks, global_chunk_index, current_pos, chunks,
                   chunk_index, valid_chunks, optimized, detVars, gemVars, sumVars, promptVars>>

\* _chunk_section: the section fits in one chunk.
ChunkSection ==
    /\ cpc = "loop"
    /\ si <= Len(csections)
    /\ ~(csections[si].content = << >> \/ RLen(Strip(csections[si].content)) < min_chunk_size)
    /\ RLen(Strip(csections[si].content)) <= max_chunk_size
    /\ all_chunks' = Append(all_chunks,
                            _create_chunk(Strip(csections[si].content), csections[si].name,
                                          csections[si].section_type, global_chunk_index))
    /\ global_chunk_index' = global_chunk_index + 1
    /\ si' = si + 1
    /\ UNCHANGED <<csections, cpc, current_pos, chunks, chunk_index, valid_chunks,
                   optimized, detVars, gemVars, sumVars, promptVars>>

\* _chunk_section: the section is longer; _split_large_section starts.
SplitLargeSection ==
    /\ cpc = "loop"
    /\ si <= Len(csections)
    /\ ~(csections[si].content = << >> \/ RLen(Strip(csections[si].content)) < min_chunk_size)
    /\ RLen(Strip(csections[si].content)) > max_chunk_size
    /\ cpc' = "split"
    /\ current_pos' = 0
    /\ chunks' = << >>
    /\ chunk_index' = global_chunk_index
    /\ UNCHANGED <<csections, si, all_chunks, global_chunk_index, valid_chunks,
                   optimized, detVars, gemVars, sumVars, promptVars>>

\* One pass of the while loop of _split_large_section.  When the loop ends,
\* create_chunks extends all_chunks and moves to the next section.
SplitPass ==
    /\ cpc = "split"
    /\ LET content       == Strip(csections[si].content)
           chunk_end     == ChunkEnd(content, current_pos)
           chunk_content == Strip(Slice(content, current_pos, chunk_end))
           appended      == RLen(chunk_content) >= min_chunk_size
           new_chunks    == IF appended
                            THEN Append(chunks,
                                        _create_chunk(chunk_content, csections[si].name,
                                                      csections[si].section_type, chunk_index))
                            ELSE chunks
           new_pos       == NextPos(current_pos, chunk_end)
       IN  /\ current_pos < RLen(content)
           /\ chunks' = new_chunks
           /\ chunk_index' = NextChunkIndex(chunk_index, appended)
           /\ current_pos' = new_pos
           /\ IF new_pos >= RLen(content)
              THEN /\ cpc' = "loop"
                   /\ all_chunks' = all_chunks \o new_chunks
                   /\ global_chunk_index' = global_chunk_index + Len(new_chunks)
                   /\ si' = si + 1
              ELSE UNCHANGED <<cpc, all_chunks, global_chunk_index, si>>
    /\ UNCHANGED <<csections, valid_chunks, optimized, detVars, gemVars, sumVars, promptVars>>

\* create_chunks returns all_chunks.
ReturnChunks ==
    /\ cpc = "loop"
    /\ si > Len(csections)
    /\ cpc' = "created"
    /\ UNCHANGED <<csections, si, all_chunks, global_chunk_index, current_pos, chunks,
                   chunk_index, valid_chunks, optimized, detVars, gemVars, sumVars, promptVars>>

ValidateChunks ==
    /\ cpc = "created"
    /\ valid_chunks' = validate_chunks(all_chunks)
    /\ cpc' = "validated"
    /\ UNCHANGED <<csections, si, all_chunks, global_chunk_index, current_pos, chunks,
                   chunk_index, optimized, detVars, gemVars, sumVars, promptVars>>

OptimizeChunks ==
    /\ cpc = "validated"
    /\ optimized' = optimize_chunks_for_ai(valid_chunks)
    /\ cpc' = "optimized"
    /\ UNCHANGED <<csections, si, all_chunks, global_chunk_index, current_pos, chunks,
                   chunk_index, valid_chunks, detVars, gemVars, sumVars, promptVars>>

ChunkNext ==
    \/ AddSection
    \/ CreateChunks
    \/ SkipSection
    \/ ChunkSection
    \/ SplitLargeSection
    \/ SplitPass
    \/ ReturnChunks
    \/ ValidateChunks
    \/ OptimizeChunks

---------------------------------------------------------------------------
(* GeminiClient *)

max_retries == 3
base_delay == 1
max_delay == 16

\* _validate_response refuses a trimmed text of fewer characters.
MinResponseLength == 10

\* _enforce_length_limits: the limit of a chunk summary, the characters kept
\* of a longer one, the limit of a final summary.
ChunkSummaryLimit == 600
ChunkSummaryKept == 597
FinalSummaryLimit == 3000

\* _truncate_structured_summary cuts a body line of more words.
MaxLineWords == 50

Ellipsis == << Run("p", 3) >>

RECURSIVE SplitLines(_)
\* t.split('\n'), by halves: the last line of the first half goes on in
\* the first line of the second.
SplitLines(t) ==
    IF t = << >> THEN << << >> >>
    ELSE IF Len(t) = 1
    THEN (IF t[1].c = "n" THEN [k \in 1..(t[1].n + 1) |-> << >>] ELSE << t >>)
    ELSE LET mid == Len(t) \div 2
             a == SplitLines(SubSeq(t, 1, mid))
             b == SplitLines(SubSeq(t, mid + 1, Len(t)))
         IN  SubSeq(a, 1, Len(a) - 1) \o << a[Len(a)] \o b[1] >> \o Tail(b)

RECURSIVE SplitWords(_)
\* t.split(), by halves: a word that runs over the middle is put together.
SplitWords(t) ==
    IF t = << >> THEN << >>
    ELSE IF Len(t) = 1 THEN (IF IsWs(t[1].c) THEN << >> ELSE << t >>)
    ELSE LET mid == Len(t) \div 2
             a == SplitWords(SubSeq(t, 1, mid))
             b == SplitWords(SubSeq(t, mid + 1, Len(t)))
         IN  IF ~IsWs(t[mid].c) /\ ~IsWs(t[mid + 1].c)
             THEN SubSeq(a, 1, Len(a) - 1) \o << a[Len(a)] \o b[1] >> \o Tail(b)
             ELSE a \o b

RECURSIVE Join(_, _)
\* sep.join(parts), by halves
Join(parts, sep) ==
    IF parts = << >> THEN << >>
    ELSE IF Len(parts) = 1 THEN parts[1]
    ELSE LET mid == Len(parts) \div 2
         IN  Cat(Join(SubSeq(parts, 1, mid), sep),
                 Cat(sep, Join(SubSeq(parts, mid + 1, Len(parts)), sep)))

\* line.startswith('**') and line.endswith('**')
IsHeaderLine(line) ==
    /\ line # << >>
    /\ line[1].c = "x" /\ line[1].n >= 2
    /\ line[Len(line)].c = "x" /\ line[Len(line)].n >= 2

\* A body line of _truncate_structured_summary: its first 50 words joined
\* by single spaces and "..." when it has more, the line as it is otherwise.
TruncateLine(line) ==
    LET words == SplitWords(line)
    IN  IF Len(words) > MaxLineWords
        THEN Cat(Join(SubSeq(words, 1, MaxLineWords), << Run("s", 1) >>), Ellipsis)
        ELSE line

RECURSIVE TruncatedLines(_, _, _)
\* The loop of _truncate_structured_summary from line i on; in_section is
\* whether current_section is set.
TruncatedLines(lines, i, in_section) ==
    IF i > Len(lines) THEN << >>
    ELSE LET line == Strip(lines[i])
         IN  IF line = << >> THEN TruncatedLines(lines, i + 1, in_section)
             ELSE IF IsHeaderLine(line)
                  THEN << line >> \o TruncatedLines(lines, i + 1, TRUE)
             ELSE IF in_section
                  THEN << TruncateLine(line), << >> >> \o TruncatedLines(lines, i + 1, TRUE)
             ELSE TruncatedLines(lines, i + 1, FALSE)

_truncate_structured_summary(content) ==
    Join(TruncatedLines(SplitLines(content), 1, FALSE), << Run("n", 1) >>)

\* Mutant: no limit is enforced.
_enforce_length_limits_off(content, ctype) == content

_enforce_length_limits(content, ctype) ==
    IF ctype = "chunk_summarization"
    THEN IF RLen(content) > ChunkSummaryLimit
         THEN Cat(Slice(content, 0, ChunkSummaryKept), Ellipsis)
         ELSE content
    ELSE IF ctype = "summary_aggregation"
    THEN IF RLen(content) > FinalSummaryLimit
         THEN _truncate_structured_summary(content)
         ELSE content
    ELSE content

NoException == [type |-> "None", msg |-> << >>]

\* The exception _validate_response raises for what went wrong.
InvalidResponse(what) ==
    [type |-> "ValueError", msg |-> << "Invalid Gemini response: " >> \o what]

\* Mutant: whatever the backend returns is taken as it is.
_validate_response_unchecked(response, ctype) ==
    [ok |-> TRUE, content |-> Strip(response.text), exc |-> NoException]

\* _validate_response: the content returned, or the exception raised.
_validate_response(response, ctype) ==
    LET content == Strip(response.text)
        fail(what) == [ok |-> FALSE, content |-> << >>, exc |-> InvalidResponse(what)]
    IN  IF ~response.present
        THEN fail(<< "Empty response from Gemini API" >>)
        ELSE IF ~response.has_text \/ response.text = << >>
        THEN fail(<< "No text content in Gemini response" >>)
        ELSE IF content = << >>
        THEN fail(<< "Empty text content in Gemini response" >>)
        ELSE IF RLen(content) < MinResponseLength
        THEN fail(<< "Response too short: ", ToString(RLen(content)), " characters" >>)
        ELSE [ok |-> TRUE,
              content |-> _enforce_length_limits(content, ctype),
              exc |-> NoException]

\* _call_gemini_api: the exception raised for an error e of the backend,
\* told by the words of its message.
_call_gemini_api(e) ==
    IF "quota" \in e.mentions \/ "rate limit" \in e.mentions
    THEN [type |-> "RuntimeError", msg |-> << "API rate limit exceeded: ", e.text >>]
    ELSE IF "api key" \in e.mentions \/ "authentication" \in e.mentions
    THEN [type |-> "ValueError", msg |-> << "API authentication failed: ", e.text >>]
    ELSE IF "safety" \in e.mentions \/ "blocked" \in e.mentions
    THEN [type |-> "ValueError", msg |-> << "Content blocked by safety filters: ", e.text >>]
    ELSE [type |-> "RuntimeError", msg |-> << "Gemini API error: ", e.text >>]

\* Mutant: an error that is not a RuntimeError is not retried.
Retryable_by_type(k, exc) == k < max_retries - 1 /\ exc.type = "RuntimeError"

\* Whether _make_api_call sleeps and tries again after failed attempt
\* number k (from 0), whatever the exception.
Retryable(k, exc) == k < max_retries - 1

\* Mutant: every wait is base_delay.
Delay_constant(k) == base_delay

\* min(base_delay * 2 ** attempt, max_delay)
Delay(k) == Min(base_delay * 2 ^ k, max_delay)

\* The error _make_api_call raises when no attempt is left.
AllRetriesFailed(exc) ==
    [type |-> "RuntimeError",
     msg |-> << "Gemini API call failed after ", ToString(max_retries), " attempts: " >>
             \o exc.msg]

---------------------------------------------------------------------------
(* GeminiClient: _build_aggregation_prompt                                 *)
(*                                                                         *)
(* A summary is kept as what the prompt builder looks at: which text it    *)
(* is (id), the length of the text once stripped, what its first 100       *)
(* characters spell whatever the case (prefix), whether they are written   *)
(* in upper case, and how much whitespace is around the text (pad).        *)

\* summary.strip()[:100]
SummaryKeyLength == 100

\* A summary is kept when len(summary.strip()) is more than this.
MinSummaryLength == 20

\* summary.strip()
StripSummary(s) == [s EXCEPT !.pad = 0]

\* summary.strip()[:100].lower()
SummaryKey(s) == << s.prefix, Min(s.length, SummaryKeyLength) >>

RECURSIVE UniqueSummaries(_, _, _, _)
\* The loop over summaries from place i on, with seen_content and
\* unique_summaries as they stand.
UniqueSummaries(summaries_, i, seen_content, unique_) ==
    IF i > Len(summaries_) THEN unique_
    ELSE IF SummaryKey(summaries_[i]) \notin seen_content
            /\ summaries_[i].length > MinSummaryLength
    THEN UniqueSummaries(summaries_, i + 1,
                         seen_content \cup {SummaryKey(summaries_[i])},
                         Append(unique_, StripSummary(summaries_[i])))
    ELSE UniqueSummaries(summaries_, i + 1, seen_content, unique_)

\* Mutant: every summary goes into the prompt.
_build_aggregation_prompt_all(summaries_) ==
    [i \in 1..Len(summaries_) |-> StripSummary(summaries_[i])]

\* The summaries "Section 1: ...", "Section 2: ..." of the prompt.
_build_aggregation_prompt(summaries_) == UniqueSummaries(summaries_, 1, {}, << >>)

---------------------------------------------------------------------------
(* _build_aggregation_prompt inputs *)

MaxSummaries == 3

\* The summaries a list given to the prompt builder is made of.
PromptSummaryKinds ==
    { \* 20 characters
      [id |-> "twenty", length |-> 20, prefix |-> "twenty", pad |-> 0, upper |-> FALSE],
      \* 21 characters, a line break after them
      [id |-> "twenty-one", length |-> 21, prefix |-> "twenty-one", pad |-> 1, upper |-> FALSE],
      \* 150 characters
      [id |-> "results", length |-> 150, prefix |-> "results", pad |-> 0, upper |-> FALSE],
      \* the same text in upper case, two spaces before it
      [id |-> "results", length |-> 150, prefix |-> "results", pad |-> 2, upper |-> TRUE],
      \* the same first 100 characters, then another 80
      [id |-> "results-longer", length |-> 180, prefix |-> "results", pad |-> 0,
       upper |-> FALSE],
      \* 60 characters
      [id |-> "methods", length |-> 60, prefix |-> "methods", pad |-> 0, upper |-> FALSE] }

PromptInit ==
    /\ summaries = << >>
    /\ prompt_pc = "input"
    /\ unique_summaries = << >>

\* The prompt builder when a specification is about another component.
PromptIdle ==
    /\ summaries = << >>
    /\ prompt_pc = "idle"
    /\ unique_summaries = << >>

\* One more summary in the list given to aggregate_summaries.
AddPromptSummary ==
    /\ prompt_pc = "input"
    /\ Len(summaries) < MaxSummaries
    /\ \E s \in PromptSummaryKinds : summaries' = Append(summaries, s)
    /\ UNCHANGED <<prompt_pc, unique_summaries, detVars, chunkVars, gemVars, sumVars>>

BuildAggregationPrompt ==
    /\ prompt_pc = "input"
    /\ unique_summaries' = _build_aggregation_prompt(summaries)
    /\ prompt_pc' = "done"
    /\ UNCHANGED <<summaries, detVars, chunkVars, gemVars, sumVars>>

PromptNext == AddPromptSummary \/ BuildAggregationPrompt

---------------------------------------------------------------------------
(* GeminiClient inputs *)

\* The errors generate_content raises: the message, and which of the words
\* _call_gemini_api looks for are in it.
BackendErrors ==
    { [text |-> "429 Quota exceeded", mentions |-> {"quota"}],
      [text |-> "API key not valid", mentions |-> {"api key"}],
      [text |-> "Response blocked: SAFETY", mentions |-> {"safety", "blocked"}],
      [text |-> "Quota project authentication failed", mentions |-> {"quota", "authentication"}],
      [text |-> "503 Deadline exceeded", mentions |-> {}] }

NoResponse == [present |-> FALSE, has_text |-> FALSE, text |-> << >>]

TextResponse(t) == [present |-> TRUE, has_text |-> TRUE, text |-> t]

\* "**" + n characters + "**"
Header(n) == << Run("x", 2), Run("a", n), Run("x", 2) >>

\* A line of k words of n characters, and its line break.
BodyLine(k, n) == Cat(Repeat(<< Run("a", n), Run("s", 1) >>, k - 1), << Run("a", n), Run("n", 1) >>)

\* A header line, then a body line of k words of n characters and a blank line.
SummarySection(h, k, n) == Cat(Cat(Header(h), << Run("n", 1) >>), Cat(BodyLine(k, n), << Run("n", 1) >>))

\* What generate_content returns.
BackendResponses ==
    { \* None
      NoResponse,
      \* a response without text
      [present |-> TRUE, has_text |-> FALSE, text |-> << >>],
      \* whitespace only
      TextResponse(<< Run("s", 2), Run("n", 1), Run("s", 1) >>),
      \* 9 characters in 12
      TextResponse(<< Run("s", 1), Run("a", 4), Run("s", 1), Run("a", 4), Run("n", 2) >>),
      \* 10 characters in 13
      TextResponse(<< Run("s", 1), Run("a", 4), Run("s", 1), Run("a", 4), Run("p", 1), Run("n", 2) >>),
      \* 600 characters: 50 words of 11
      TextResponse(Cat(Repeat(<< Run("a", 11), Run("s", 1) >>, 49), << Run("a", 11), Run("p", 1) >>)),
      \* 601 characters: a space is the 597th
      TextResponse(Cat(<< Run("a", 8) >>,
                       Cat(Repeat(<< Run("s", 1), Run("a", 11) >>, 49), << Run("a", 4), Run("p", 1) >>))),
      \* 3,000 characters: five sections of 600
      TextResponse(Strip(Repeat(SummarySection(7, 49, 11), 5))),
      \* 4,012 characters: one section, a body line of 200 words
      TextResponse(Cat(Cat(Header(7), << Run("n", 1) >>), BodyLine(200, 19))),
      \* 3,815 characters: five sections, each body a line of 50 words
      TextResponse(Repeat(SummarySection(7, 50, 14), 5)),
      \* 4,013 characters: one section, its body a single word of 4,000
      TextResponse(Cat(Cat(Header(7), << Run("n", 1) >>), BodyLine(1, 4000))),
      \* 3,049 characters of prose, no header line
      TextResponse(Strip(Repeat(BodyLine(61, 9), 5))),
      \* 3,230 characters: a sentence before the first header, then a section
      \* whose body is four lines of 40 words
      TextResponse(Cat(BodyLine(3, 5),
                       Cat(Cat(Header(7), << Run("n", 1) >>), Repeat(BodyLine(40, 19), 4)))) }

GemInit ==
    /\ call_type = "none"
    /\ apc = "ready"
    /\ attempt = 0
    /\ calls = 0
    /\ last_exception = NoException
    /\ delays = << >>
    /\ backend_log = << >>
    /\ result = << >>
    /\ error = NoException

\* The adapter when a specification is about another component.
GemIdle ==
    /\ call_type = "none"
    /\ apc = "idle"
    /\ attempt = 0
    /\ calls = 0
    /\ last_exception = NoException
    /\ delays = << >>
    /\ backend_log = << >>
    /\ result = << >>
    /\ error = NoException

\* summarize_chunk: _make_api_call(prompt, "chunk_summarization") starts.
SummarizeChunk ==
    /\ apc = "ready"
    /\ call_type' = "chunk_summarization"
    /\ apc' = "attempt"
    /\ attempt' = 0
    /\ last_exception' = NoException
    /\ UNCHANGED <<calls, delays, backend_log, result, error, detVars, chunkVars, sumVars, promptVars>>

\* aggregate_summaries: _make_api_call(prompt, "summary_aggregation") starts.
AggregateSummaries ==
    /\ apc = "ready"
    /\ call_type' = "summary_aggregation"
    /\ apc' = "attempt"
    /\ attempt' = 0
    /\ last_exception' = NoException
    /\ UNCHANGED <<calls, delays, backend_log, result, error, detVars, chunkVars, sumVars, promptVars>>

\* An attempt of the loop: generate_content is called.
CallGeminiApi ==
    /\ apc = "attempt"
    /\ apc' = "in_flight"
    /\ calls' = calls + 1
    /\ UNCHANGED <<call_type, attempt, last_exception, delays, backend_log, result, error,
                   detVars, chunkVars, sumVars, promptVars>>

\* The except branch of _make_api_call, for exception exc of an attempt
\* the backend answered with response.
AttemptFailed(exc, response) ==
    /\ last_exception' = exc
    /\ backend_log' = Append(backend_log, [ok |-> FALSE, exc |-> exc, response |-> response])
    /\ IF Retryable(attempt, exc)
       THEN /\ delays' = Append(delays, Delay(attempt))
            /\ apc' = "sleeping"
            /\ UNCHANGED error
       ELSE /\ apc' = "raised"
            /\ error' = AllRetriesFailed(exc)
            /\ UNCHANGED delays
    /\ UNCHANGED <<call_type, attempt, calls, result, detVars, chunkVars, sumVars, promptVars>>

\* generate_content raises.
ApiRaises ==
    /\ apc = "in_flight"
    /\ \E e \in BackendErrors : AttemptFailed(_call_gemini_api(e), NoResponse)

\* generate_content returns: the response is validated, and returned or
\* counted as a failed attempt.
ApiResponds ==
    /\ apc = "in_flight"
    /\ \E response \in BackendResponses :
          LET validated == _validate_response(response, call_type)
          IN  IF validated.ok
              THEN /\ result' = validated.content
                   /\ apc' = "returned"
                   /\ backend_log' = Append(backend_log,
                                            [ok |-> TRUE, exc |-> NoException,
                                             response |-> response])
                   /\ UNCHANGED <<call_type, attempt, calls, last_exception, delays, error,
                                  detVars, chunkVars, sumVars, promptVars>>
              ELSE AttemptFailed(validated.exc, response)

\* asyncio.sleep(delay) is over: the next attempt.
SleepEnds ==
    /\ apc = "sleeping"
    /\ attempt' = attempt + 1
    /\ apc' = "attempt"
    /\ UNCHANGED <<call_type, calls, last_exception, delays, backend_log, result, error,
                   detVars, chunkVars, sumVars, promptVars>>

GemNext ==
    \/ SummarizeChunk
    \/ AggregateSummaries
    \/ CallGeminiApi
    \/ ApiRaises
    \/ ApiResponds
    \/ SleepEnds

---------------------------------------------------------------------------
(* SummaryGenerator: the parsers of the aggregated text                    *)
(*                                                                         *)
(* The parsers read the aggregated text line by line and word by word, so  *)
(* the text is a sequence of line records: whether the line is blank, the  *)
(* keys of section_headers one of whose variants occurs in the lowercased  *)
(* line, whether the line starts with '**' or '#' or ends with ':',        *)
(* whether something is left of it without '**' and '#', and how many      *)
(* words it has.  The content of a section is kept as what it is made of:  *)
(* the lines joined, the run of words, or the chunk summaries joined.      *)

\* The keys of section_headers, in the order of the dict.
SectionHeaderOrder == << "problem", "methods", "results", "implications", "limitations" >>

\* _parse_structured_summary gives up with fewer sections.
MinSections == 3

\* The first key of section_headers a line is a header of, "none" without one.
HeaderKey(line) ==
    LET hits == { k \in 1..Len(SectionHeaderOrder) :
                     SectionHeaderOrder[k] \in line.variants /\ line.marked }
    IN  IF hits = {} THEN "none" ELSE SectionHeaderOrder[SetMin(hits)]

\* section_key.title()
KeyTitle(key) ==
    CASE key = "problem" -> "Problem"
      [] key = "methods" -> "Methods"
      [] key = "results" -> "Results"
      [] key = "implications" -> "Implications"
      [] key = "limitations" -> "Limitations"

\* {'title': ..., 'content': ' '.join(current_content).strip()}
ParsedSection(key, content) ==
    [title |-> KeyTitle(key), lines |-> content, from |-> 0, to |-> 0, summaries |-> << >>]

\* The sections list after the section that was open is saved, if it has
\* a key and content.
SaveSection(sections_, key, content) ==
    IF key # "none" /\ content # << >>
    THEN Append(sections_, ParsedSection(key, content))
    ELSE sections_

RECURSIVE ParseLines(_, _, _, _, _)
\* The loop of _parse_structured_summary from line i on, and the final
\* section added after it.
ParseLines(lines, i, current_section, current_content, sections_) ==
    IF i > Len(lines) THEN SaveSection(sections_, current_section, current_content)
    ELSE IF lines[i].blank
    THEN ParseLines(lines, i + 1, current_section, current_content, sections_)
    ELSE IF HeaderKey(lines[i]) # "none"
    THEN ParseLines(lines, i + 1, HeaderKey(lines[i]), << >>,
                    SaveSection(sections_, current_section, current_content))
    ELSE IF current_section # "none" /\ lines[i].clean
    THEN ParseLines(lines, i + 1, current_section, Append(current_content, i), sections_)
    ELSE ParseLines(lines, i + 1, current_section, current_content, sections_)

\* len(summary_text.split())
TextWords(lines) == SumTo([i \in 1..Len(lines) |-> lines[i].words], Len(lines))

\* The split with the chunk size rounded up.
_create_simple_sections_rounded_up(lines) ==
    LET words == TextWords(lines)
        chunk_size == (words + 2) \div 3
    IN  << [title |-> "Overview", lines |-> << >>, from |-> 0, to |-> chunk_size,
            summaries |-> << >>],
           [title |-> "Key Findings", lines |-> << >>, from |-> chunk_size,
            to |-> chunk_size * 2, summaries |-> << >>],
           [title |-> "Conclusions", lines |-> << >>, from |-> chunk_size * 2,
            to |-> words, summaries |-> << >>] >>

_create_simple_sections(lines) ==
    LET words == TextWords(lines)
        chunk_size == words \div 3
    IN  << [title |-> "Overview", lines |-> << >>, from |-> 0, to |-> chunk_size,
            summaries |-> << >>],
           [title |-> "Key Findings", lines |-> << >>, from |-> chunk_size,
            to |-> chunk_size * 2, summaries |-> << >>],
           [title |-> "Conclusions", lines |-> << >>, from |-> chunk_size * 2,
            to |-> words, summaries |-> << >>] >>

_parse_structured_summary(lines) ==
    LET sections_ == ParseLines(lines, 1, "none", << >>, << >>)
    IN  IF Len(sections_) < MinSections THEN _create_simple_sections(lines) ELSE sections_

---------------------------------------------------------------------------
(* Parser inputs *)

MaxSummaryLines == 6

HeaderLine(key) ==
    [blank |-> FALSE, variants |-> {key}, marked |-> TRUE, clean |-> TRUE, words |-> 1]

\* The lines an aggregated text is built of.
SummaryLineKinds ==
    { \* "**Problem**", "**Methods**", "**Results**"
      HeaderLine("problem"),
      HeaderLine("methods"),
      HeaderLine("results"),
      \* a line of 12 words, none of them a variant
      [blank |-> FALSE, variants |-> {}, marked |-> FALSE, clean |-> TRUE, words |-> 12],
      \* a sentence of 8 words with "findings" and "implications" in it
      [blank |-> FALSE, variants |-> {"results", "implications"}, marked |-> FALSE,
       clean |-> TRUE, words |-> 8],
      \* a blank line
      [blank |-> TRUE, variants |-> {}, marked |-> FALSE, clean |-> FALSE, words |-> 0] }

ParseInit ==
    /\ summary_text \in { <<l>> : l \in SummaryLineKinds }
    /\ ppc = "input"
    /\ parsed = << >>

\* The parser when a specification is about another component.
ParseIdle ==
    /\ summary_text = << >>
    /\ ppc = "idle"
    /\ parsed = << >>

\* One more line of aggregated text.
AddSummaryLine ==
    /\ ppc = "input"
    /\ Len(summary_text) < MaxSummaryLines
    /\ \E l \in SummaryLineKinds : summary_text' = Append(summary_text, l)
    /\ UNCHANGED <<ppc, parsed, orchVars, detVars, chunkVars, gemVars, promptVars>>

ParseStructuredSummary ==
    /\ ppc = "input"
    /\ parsed' = _parse_structured_summary(summary_text)
    /\ ppc' = "done"
    /\ UNCHANGED <<summary_text, orchVars, detVars, chunkVars, gemVars, promptVars>>

ParseNext == AddSummaryLine \/ ParseStructuredSummary

---------------------------------------------------------------------------
(* SummaryGenerator: generate_summary *)

max_concurrent_requests == 3

NoSummary == [id |-> "none", length |-> 0, prefix |-> "none", pad |-> 0, upper |-> FALSE]

\* The ChunkSummary of a chunk whose call returned summary.
ChunkSummaryOf(chunk, summary) ==
    [chunk_index |-> chunk.chunk_index,
     section |-> chunk.section,
     section_type |-> chunk.section_type,
     summary |-> summary]

\* Mutant: the k-th summary is tagged with the k-th chunk of the list.
SuccessfulSummaries_by_place(chunks_, workers_) ==
    LET ok == { i \in 1..Len(chunks_) : workers_[i].pc = "ok" }
        nth(k) == CHOOSE i \in ok : Cardinality({ j \in ok : j < i }) = k - 1
    IN  [k \in 1..Cardinality(ok) |-> ChunkSummaryOf(chunks_[k], workers_[nth(k)].summary)]

\* The results of gather that are neither an exception nor None, in the
\* order of the chunks.
SuccessfulSummaries(chunks_, workers_) ==
    LET ok == { i \in 1..Len(chunks_) : workers_[i].pc = "ok" }
        nth(k) == CHOOSE i \in ok : Cardinality({ j \in ok : j < i }) = k - 1
    IN  [k \in 1..Cardinality(ok) |-> ChunkSummaryOf(chunks_[nth(k)], workers_[nth(k)].summary)]

\* Mutant: the groups come in the order of the registry of section types.
GroupOrder_by_rank(summaries_) ==
    LET types  == { summaries_[i].section_type : i \in 1..Len(summaries_) }
        nth(k) == CHOOSE t \in types :
                     Cardinality({ u \in types : TypeRank(u) < TypeRank(t) }) = k - 1
    IN  [k \in 1..Cardinality(types) |-> nth(k)]

\* The section types of the chunk summaries, each at its first appearance:
\* the keys of section_groups in the order of the dict.
GroupOrder(summaries_) ==
    LET first == { i \in 1..Len(summaries_) :
                      \A j \in 1..(i - 1) : summaries_[j].section_type # summaries_[i].section_type }
        nth(k) == CHOOSE i \in first : Cardinality({ j \in first : j < i }) = k - 1
    IN  [k \in 1..Cardinality(first) |-> summaries_[nth(k)].section_type]

\* The summaries of one section type, in the order of the list.
GroupOf(summaries_, type) ==
    LET same == SelectSeq(summaries_, LAMBDA cs : cs.section_type = type)
    IN  [k \in 1..Len(same) |-> same[k].summary.id]

\* Mutant: the fallback has nothing to offer.
_create_fallback_summary_empty(summaries_) == << >>

_create_fallback_summary(summaries_) ==
    LET groups == GroupOrder(summaries_)
    IN  IF groups = << >>
        THEN << [title |-> "Summary", lines |-> << >>, from |-> 0, to |-> 0,
                 summaries |-> << "Unable to generate structured summary. Please try again." >>] >>
        ELSE [k \in 1..Len(groups) |->
                 [title |-> Title(groups[k]), lines |-> << >>, from |-> 0, to |-> 0,
                  summaries |-> GroupOf(summaries_, groups[k])]]

\* Mutant: the rate is taken over the chunks that were summarized.
SummaryResult_of_successes(chunks_, summaries_, sections_) ==
    [chunk_count |-> Len(summaries_),
     chunk_summaries |-> summaries_,
     success_rate |-> << Len(summaries_), Len(summaries_) >>,
     sections |-> sections_]

\* The SummaryResult of generate_summary; success_rate is kept as the
\* pair of the two lengths divided.
SummaryResult(chunks_, summaries_, sections_) ==
    [chunk_count |-> Len(chunks_),
     chunk_summaries |-> summaries_,
     success_rate |-> << Len(summaries_), Len(chunks_) >>,
     sections |-> sections_]

NoResult == [chunk_count |-> 0, chunk_summaries |-> << >>, success_rate |-> << 0, 1 >>,
             sections |-> << >>]

---------------------------------------------------------------------------
(* generate_summary inputs *)

MaxChunks == 4

\* The section type of the chunk at place i of the list.
ChunkTypeAt(i) == IF i % 2 = 1 THEN "abstract" ELSE "methodology"

\* The chunk at place i of the list: validate_chunks may have dropped
\* chunks before it, so its chunk_index is not i - 1.
ChunkAt(i) ==
    [chunk_index |-> 2 * i - 1, section |-> Title(ChunkTypeAt(i)),
     section_type |-> ChunkTypeAt(i)]

\* The contents summarize_chunk returns: a sentence of 15 characters, a
\* paragraph of 120.
SummaryKinds ==
    { [id |-> "short", length |-> 15, prefix |-> "short", pad |-> 0, upper |-> FALSE],
      [id |-> "long", length |-> 120, prefix |-> "long", pad |-> 0, upper |-> FALSE] }

\* The error of the backend in these runs.
TransportError == [text |-> "503 Deadline exceeded", mentions |-> {}]

\* The texts aggregate_summaries returns: three headers with a line under
\* each; three headers, the first with no line under it; prose.
AggregateTexts ==
    LET body == [blank |-> FALSE, variants |-> {}, marked |-> FALSE, clean |-> TRUE,
                 words |-> 12]
    IN  { << HeaderLine("problem"), body, HeaderLine("methods"), body,
             HeaderLine("results"), body >>,
          << HeaderLine("problem"), HeaderLine("methods"), body,
             HeaderLine("results"), body >>,
          << body, body >> }

\* The worker of a chunk before it has a slot.
Waiting == [pc |-> "waiting", attempt |-> 0, summary |-> NoSummary]

Terminated(w) == w.pc \in {"ok", "failed", "timeout"}

HoldsSlot(w) == w.pc \in {"in_flight", "sleeping"}

\* A worker that has ended, or the aggregate call when it has: the
\* locals of its _make_api_call are gone.
Ended(pc, summary) == [pc |-> pc, attempt |-> 0, summary |-> summary]

OrchInit ==
    /\ chunk_list = << >>
    /\ opc = "input"
    /\ workers = << >>
    /\ semaphore = max_concurrent_requests
    /\ threads = {}
    /\ agg = [pc |-> "idle", attempt |-> 0]
    /\ chunk_summaries = << >>
    /\ summary_result = NoResult
    /\ raised = "None"
    /\ backend_called = FALSE
    /\ agg_calls = 0
    /\ agg_prompt = << >>
    /\ out_of_order = FALSE

\* The orchestrator when a specification is about another component.
OrchIdle ==
    /\ chunk_list = << >>
    /\ opc = "idle"
    /\ workers = << >>
    /\ semaphore = max_concurrent_requests
    /\ threads = {}
    /\ agg = [pc |-> "idle", attempt |-> 0]
    /\ chunk_summaries = << >>
    /\ summary_result = NoResult
    /\ raised = "None"
    /\ backend_called = FALSE
    /\ agg_calls = 0
    /\ agg_prompt = << >>
    /\ out_of_order = FALSE

\* One more chunk in the list given to generate_summary.
AddChunk ==
    /\ opc = "input"
    /\ Len(chunk_list) < MaxChunks
    /\ chunk_list' = Append(chunk_list, ChunkAt(Len(chunk_list) + 1))
    /\ UNCHANGED <<opc, workers, semaphore, threads, agg, chunk_summaries, summary_result,
                   raised, backend_called, agg_calls, agg_prompt, out_of_order,
                   parseVars, detVars, chunkVars, gemVars, promptVars>>

\* generate_summary is called: it raises on an empty list, and otherwise
\* _summarize_chunks makes the semaphore and a worker for each chunk.
GenerateSummary ==
    /\ opc = "input"
    /\ IF chunk_list = << >>
       THEN /\ opc' = "raised"
            /\ raised' = "ValueError: No chunks provided for summarization"
            /\ UNCHANGED workers
       ELSE /\ opc' = "fanout"
            /\ workers' = [i \in 1..Len(chunk_list) |-> Waiting]
            /\ UNCHANGED raised
    /\ semaphore' = max_concurrent_requests
    /\ UNCHANGED <<chunk_list, threads, agg, chunk_summaries, summary_result,
                   backend_called, agg_calls, agg_prompt, out_of_order,
                   parseVars, detVars, chunkVars, gemVars, promptVars>>

\* Worker i enters "async with semaphore" and its first attempt hands
\* generate_content to a thread.  gather starts the workers in the order
\* of the list and the semaphore wakes its waiters in the order they came.
AcquireSlot ==
    /\ opc = "fanout"
    /\ semaphore > 0
    /\ \E i \in 1..Len(workers) :
          /\ workers[i].pc = "waiting"
          /\ \A j \in 1..(i - 1) : workers[j].pc # "waiting"
          /\ workers' = [workers EXCEPT ![i].pc = "in_flight"]
          /\ threads' = threads \cup {i}
    /\ semaphore' = semaphore - 1
    /\ backend_called' = TRUE
    /\ UNCHANGED <<chunk_list, opc, agg, chunk_summaries, summary_result, raised,
                   agg_calls, agg_prompt, out_of_order, parseVars, detVars, chunkVars, gemVars, promptVars>>

\* Mutant: a worker that ends keeps its slot.
WorkerEnds_keeps_slot(i, w) ==
    /\ workers' = [workers EXCEPT ![i] = w]
    /\ semaphore' = semaphore
    /\ out_of_order' = (out_of_order \/ \E j \in 1..(i - 1) : ~Terminated(workers[j]))

\* Worker i ends, with w its last state: the slot is given back.
WorkerEnds(i, w) ==
    /\ workers' = [workers EXCEPT ![i] = w]
    /\ semaphore' = semaphore + 1
    /\ out_of_order' = (out_of_order \/ \E j \in 1..(i - 1) : ~Terminated(workers[j]))

\* The thread of worker i comes back with a valid response: summarize_chunk
\* returns and the worker returns its ChunkSummary.
ChunkCallReturns ==
    /\ opc = "fanout"
    /\ \E i \in 1..Len(workers) : \E s \in SummaryKinds :
          /\ workers[i].pc = "in_flight"
          /\ WorkerEnds(i, Ended("ok", s))
          /\ threads' = threads \ {i}
    /\ UNCHANGED <<chunk_list, opc, agg, chunk_summaries, summary_result, raised,
                   backend_called, agg_calls, agg_prompt, parseVars, detVars, chunkVars, gemVars, promptVars>>

\* The thread of worker i comes back with an error, or with a response
\* that is not valid: _make_api_call sleeps before the next attempt or, out
\* of attempts, raises, and the worker returns None.
ChunkCallFails ==
    /\ opc = "fanout"
    /\ \E i \in 1..Len(workers) :
          /\ workers[i].pc = "in_flight"
          /\ threads' = threads \ {i}
          /\ IF Retryable(workers[i].attempt, _call_gemini_api(TransportError))
             THEN /\ workers' = [workers EXCEPT ![i].pc = "sleeping"]
                  /\ UNCHANGED <<semaphore, out_of_order>>
             ELSE WorkerEnds(i, Ended("failed", NoSummary))
    /\ UNCHANGED <<chunk_list, opc, agg, chunk_summaries, summary_result, raised,
                   backend_called, agg_calls, agg_prompt, parseVars, detVars, chunkVars, gemVars, promptVars>>

\* The sleep of worker i is over: the next attempt hands generate_content
\* to a thread.
ChunkRetry ==
    /\ opc = "fanout"
    /\ \E i \in 1..Len(workers) :
          /\ workers[i].pc = "sleeping"
          /\ workers' = [workers EXCEPT ![i].pc = "in_flight",
                                        ![i].attempt = workers[i].attempt + 1]
          /\ threads' = threads \cup {i}
    /\ UNCHANGED <<chunk_list, opc, semaphore, agg, chunk_summaries, summary_result, raised,
                   backend_called, agg_calls, agg_prompt, out_of_order,
                   parseVars, detVars, chunkVars, gemVars, promptVars>>

\* wait_for gives up on worker i after chunk_timeout: summarize_chunk is
\* cancelled where it waits, the worker returns None; a thread that runs
\* generate_content is not stopped by it.
ChunkTimeout ==
    /\ opc = "fanout"
    /\ \E i \in 1..Len(workers) :
          /\ HoldsSlot(workers[i])
          /\ WorkerEnds(i, Ended("timeout", NoSummary))
    /\ UNCHANGED <<chunk_list, opc, threads, agg, chunk_summaries, summary_result, raised,
                   backend_called, agg_calls, agg_prompt, parseVars, detVars, chunkVars, gemVars, promptVars>>

\* A thread whose call was cancelled ends; nobody waits for what it returns.
AbandonedThreadEnds ==
    /\ \E t \in threads :
          /\ IF t = 0 THEN agg.pc = "timeout" ELSE workers[t].pc = "timeout"
          /\ threads' = threads \ {t}
    /\ UNCHANGED <<chunk_list, opc, workers, semaphore, agg, chunk_summaries, summary_result,
                   raised, backend_called, agg_calls, agg_prompt, out_of_order,
                   parseVars, detVars, chunkVars, gemVars, promptVars>>

\* Mutant: gather returns with the first worker that has ended.
AllWorkersEnded_first(workers_) == \E i \in 1..Len(workers_) : Terminated(workers_[i])

\* gather has the result of every worker.
AllWorkersEnded(workers_) == \A i \in 1..Len(workers_) : Terminated(workers_[i])

\* Mutant: _summarize_chunks goes on without a summary.
AllFailed_ignored(summaries_) == FALSE

\* "if not successful_summaries"
AllFailed(summaries_) == summaries_ = << >>

\* gather returns when every worker has ended.  _summarize_chunks raises
\* without a summary; with one, _aggregate_summaries calls
\* aggregate_summaries, whose first attempt hands generate_content to a
\* thread.
Gather ==
    /\ opc = "fanout"
    /\ AllWorkersEnded(workers)
    /\ LET successful_summaries == SuccessfulSummaries(chunk_list, workers)
       IN  /\ chunk_summaries' = successful_summaries
           /\ IF AllFailed(successful_summaries)
              THEN /\ opc' = "raised"
                   /\ raised' = "RuntimeError: All chunk summarizations failed"
                   /\ UNCHANGED <<agg, threads, agg_calls, agg_prompt, backend_called>>
              ELSE /\ opc' = "aggregate"
                   /\ agg' = [pc |-> "in_flight", attempt |-> 0]
                   /\ threads' = threads \cup {0}
                   /\ agg_calls' = agg_calls + 1
                   /\ agg_prompt' = _build_aggregation_prompt(
                                        [k \in 1..Len(successful_summaries) |->
                                            successful_summaries[k].summary])
                   /\ backend_called' = TRUE
                   /\ UNCHANGED raised
    /\ UNCHANGED <<chunk_list, workers, semaphore, summary_result, out_of_order,
                   parseVars, detVars, chunkVars, gemVars, promptVars>>

\* generate_summary returns its SummaryResult with sections_.
ReturnResult(sections_) ==
    /\ summary_result' = SummaryResult(chunk_list, chunk_summaries, sections_)
    /\ opc' = "returned"

\* The thread of the aggregate call comes back with a valid response: it
\* is parsed into the sections of the result.
AggregateReturns ==
    /\ opc = "aggregate"
    /\ agg.pc = "in_flight"
    /\ \E lines \in AggregateTexts : ReturnResult(_parse_structured_summary(lines))
    /\ agg' = [pc |-> "ok", attempt |-> 0]
    /\ threads' = threads \ {0}
    /\ UNCHANGED <<chunk_list, workers, semaphore, chunk_summaries, raised, backend_called,
                   agg_calls, agg_prompt, out_of_order, parseVars, detVars, chunkVars, gemVars, promptVars>>

\* The thread of the aggregate call comes back with an error or a response
\* that is not valid: the next attempt after a sleep or, out of attempts,
\* the fallback summary.
AggregateFails ==
    /\ opc = "aggregate"
    /\ agg.pc = "in_flight"
    /\ threads' = threads \ {0}
    /\ IF Retryable(agg.attempt, _call_gemini_api(TransportError))
       THEN /\ agg' = [agg EXCEPT !.pc = "sleeping"]
            /\ UNCHANGED <<summary_result, opc>>
       ELSE /\ agg' = [pc |-> "failed", attempt |-> 0]
            /\ ReturnResult(_create_fallback_summary(chunk_summaries))
    /\ UNCHANGED <<chunk_list, workers, semaphore, chunk_summaries, raised, backend_called,
                   agg_calls, agg_prompt, out_of_order, parseVars, detVars, chunkVars, gemVars, promptVars>>

\* The sleep of the aggregate call is over: the next attempt.
AggregateRetry ==
    /\ opc = "aggregate"
    /\ agg.pc = "sleeping"
    /\ agg' = [pc |-> "in_flight", attempt |-> agg.attempt + 1]
    /\ threads' = threads \cup {0}
    /\ UNCHANGED <<chunk_list, opc, workers, semaphore, chunk_summaries, summary_result,
                   raised, backend_called, agg_calls, agg_prompt, out_of_order,
                   parseVars, detVars, chunkVars, gemVars, promptVars>>

\* wait_for gives up on the aggregate call after aggregation_timeout: the
\* fallback summary; a thread that runs generate_content is not stopped.
AggregateTimeout ==
    /\ opc = "aggregate"
    /\ agg.pc \in {"in_flight", "sleeping"}
    /\ agg' = [pc |-> "timeout", attempt |-> 0]
    /\ ReturnResult(_create_fallback_summary(chunk_summaries))
    /\ UNCHANGED <<chunk_list, workers, semaphore, threads, chunk_summaries, raised,
                   backend_called, agg_calls, agg_prompt, out_of_order,
                   parseVars, detVars, chunkVars, gemVars, promptVars>>

OrchNext ==
    \/ AddChunk
    \/ GenerateSummary
    \/ AcquireSlot
    \/ ChunkCallReturns
    \/ ChunkCallFails
    \/ ChunkRetry
    \/ ChunkTimeout
    \/ AbandonedThreadEnds
    \/ Gather
    \/ AggregateReturns
    \/ AggregateFails
    \/ AggregateRetry
    \/ AggregateTimeout

---------------------------------------------------------------------------
(* Specifications *)

\* detect_sections on every text of the bounded family.
InitDetect == DetInit /\ ChunkIdle /\ GemIdle /\ ParseIdle /\ OrchIdle /\ PromptIdle

SpecDetect == InitDetect /\ [][DetNext]_vars

\* create_chunks, validate_chunks and optimize_chunks_for_ai, in the order
\* summarize_pdf calls them, on every list of sections of the bounded family.
InitChunk == ChunkInit /\ DetIdle /\ GemIdle /\ ParseIdle /\ OrchIdle /\ PromptIdle

SpecChunk == InitChunk /\ [][ChunkNext]_vars

\* summarize_chunk or aggregate_summaries, for every sequence of errors and
\* responses of the backend.
InitAdapter == GemInit /\ DetIdle /\ ChunkIdle /\ ParseIdle /\ OrchIdle /\ PromptIdle

SpecAdapter == InitAdapter /\ [][GemNext]_vars

\* _parse_structured_summary on every aggregated text of the bounded family.
InitParse == ParseInit /\ OrchIdle /\ DetIdle /\ ChunkIdle /\ GemIdle /\ PromptIdle

SpecParse == InitParse /\ [][ParseNext]_vars

\* generate_summary on a list of chunks, for every interleaving of the
\* workers, of the backend's answers and of the timeouts.
InitOrchestrator == OrchInit /\ ParseIdle /\ DetIdle /\ ChunkIdle /\ GemIdle /\ PromptIdle

SpecOrchestrator == InitOrchestrator /\ [][OrchNext]_vars

\* What the event loop does by itself once it can: wake the first waiter of
\* the semaphore, end a sleep, return from gather.
EventLoopStep == AcquireSlot \/ ChunkRetry \/ Gather \/ AggregateRetry

\* An attempt of a chunk call, or a chunk call as a whole, comes to its end:
\* the backend answers, or wait_for gives up after chunk_timeout.
ChunkAttemptEnds == ChunkCallReturns \/ ChunkCallFails \/ ChunkTimeout

\* The same for the aggregate call and aggregation_timeout.
AggregateAttemptEnds == AggregateReturns \/ AggregateFails \/ AggregateTimeout

\* generate_summary when the event loop runs what is ready and no attempt
\* is left pending for ever.
SpecOrchestratorFair ==
    /\ InitOrchestrator
    /\ [][OrchNext]_vars
    /\ WF_vars(EventLoopStep)
    /\ WF_vars(ChunkAttemptEnds)
    /\ WF_vars(AggregateAttemptEnds)

\* _build_aggregation_prompt on every list of summaries of the bounded family.
InitPrompt == PromptInit /\ DetIdle /\ ChunkIdle /\ GemIdle /\ ParseIdle /\ OrchIdle

SpecPrompt == InitPrompt /\ [][PromptNext]_vars

---------------------------------------------------------------------------
(* Claims about SectionDetector, checked under SpecDetect *)

\* C1: for every input text detect_sections returns a non-empty list, also
\* when markers were found and every section they open was removed.
C1_NeverEmpty == dpc = "done" => Len(sections) >= 1

\* The case of C1: markers found in a text of 50 trimmed characters or more.
C1_MarkersFound ==
    /\ dpc = "done"
    /\ SpanLen(StripLines(text, 1, Len(text))) >= min_section_length
    /\ _find_section_markers(text) # << >>

\* Where the section that starts at marker position p must end, given
\* the positions of the surviving markers: at the nearest one after p, at
\* the end of the text without one.
NextMarkerOrEnd(positions, p) ==
    LET later == { q \in positions : q > p }
    IN  IF later = {} THEN TextLen(text)
        ELSE CHOOSE q \in later : \A r \in later : q <= r

\* C2: the sections returned are in strictly increasing start order, do
\* not overlap, lie within [0, len(text)], and each runs from its marker's
\* position to the next surviving marker's, or to the end of the text.
C2_OrderedSpans ==
    dpc = "done" =>
        LET markers   == _find_section_markers(text)
            positions == { markers[i].pos : i \in 1..Len(markers) }
        IN  /\ \A i \in 1..Len(sections) :
                  /\ 0 <= sections[i].start_position
                  /\ sections[i].start_position <= sections[i].end_position
                  /\ sections[i].end_position <= TextLen(text)
                  /\ sections[i].section_type # "unknown" =>
                        /\ sections[i].start_position \in positions
                        /\ sections[i].end_position =
                               NextMarkerOrEnd(positions, sections[i].start_position)
            /\ \A i \in 1..(Len(sections) - 1) :
                  /\ sections[i].start_position < sections[i + 1].start_position
                  /\ sections[i].end_position <= sections[i + 1].start_position

\* Two sections came out of the markers, and a marker between them whose
\* section was dropped.
C2_TwoSections ==
    /\ dpc = "done"
    /\ Len(sections) >= 2
    /\ sections[1].end_position < sections[2].start_position
    /\ sections[2].end_position = TextLen(text)

\* C3: no section of the output has type references.
C3_NoReferences ==
    dpc = "done" => \A i \in 1..Len(sections) : sections[i].section_type # "references"

\* A references marker opened a section long enough to be kept, and the
\* output holds other sections.
C3_ReferencesDropped ==
    /\ dpc = "done"
    /\ Len(sections) >= 1
    /\ LET made == _create_sections_from_markers(text, _find_section_markers(text))
       IN  \E i \in 1..Len(made) : made[i].section_type = "references"

\* The trimmed text as a slice of the text: from its first to its last
\* character that is not whitespace.
TrimmedText ==
    LET full == { k \in 1..Len(text) : text[k].body > 0 }
        ends == { LinePos(text, k) + text[k].lead + text[k].body : k \in full }
        begs == { LinePos(text, k) + text[k].lead : k \in full }
    IN  IF full = {} THEN [from |-> 0, to |-> 0, ellipsis |-> FALSE, cleaned |-> FALSE]
        ELSE [from |-> CHOOSE b \in begs : \A c \in begs : b <= c,
              to   |-> CHOOSE e \in ends : \A c \in ends : e >= c,
              ellipsis |-> FALSE, cleaned |-> FALSE]

NoLineMatches == \A k \in 1..Len(text) : text[k].body = 0 \/ text[k].matches = {}

\* C4: an empty text, a text of fewer than 50 trimmed characters, and a
\* longer text none of whose lines matches a heading pattern, each give
\* exactly one section: unknown, [0, len(text)], confidence 1.0, content
\* the trimmed text.
C4_UnknownFallback ==
    (dpc = "done" /\ (TextLen(text) = 0
                      \/ TrimmedText.to - TrimmedText.from < min_section_length
                      \/ NoLineMatches)) =>
        /\ Len(sections) = 1
        /\ sections[1].section_type = "unknown"
        /\ sections[1].start_position = 0
        /\ sections[1].end_position = TextLen(text)
        /\ sections[1].confidence = 10
        /\ sections[1].content = TrimmedText

\* A short text that has a heading line in it went through the fallback.
C4_ShortTextWithHeading ==
    /\ dpc = "done"
    /\ TextLen(text) > 0
    /\ TrimmedText.to - TrimmedText.from < min_section_length
    /\ ~NoLineMatches
    /\ Len(sections) = 1

---------------------------------------------------------------------------
(* Claims about ChunkManager, checked under SpecChunk *)

SizeInBounds(chunk) ==
    /\ min_chunk_size <= chunk.character_count
    /\ chunk.character_count <= max_chunk_size
    /\ chunk.character_count = RLen(chunk.content)

\* C5: every chunk has min_chunk_size <= character_count <= max_chunk_size,
\* character_count being the length of its content: the chunks of
\* create_chunks (one per section, or split), those validate_chunks keeps,
\* and those of optimize_chunks_for_ai, header included.
C5_ChunkSizeBounds ==
    /\ \A i \in 1..Len(all_chunks) : SizeInBounds(all_chunks[i])
    /\ \A i \in 1..Len(chunks) : SizeInBounds(chunks[i])
    /\ \A i \in 1..Len(valid_chunks) : SizeInBounds(valid_chunks[i])
    /\ \A i \in 1..Len(optimized) : SizeInBounds(optimized[i])

\* The header was prepended to a chunk cut to make room for it, and to a
\* chunk of a section that was split.
C5_TruncatedAndSplit ==
    /\ cpc = "optimized"
    /\ \E i \in 1..Len(optimized) :
          /\ optimized[i].character_count = max_chunk_size
          /\ valid_chunks[i].character_count > max_chunk_size - RLen(ContextPrefix(valid_chunks[i].section))
    /\ \E i \in 1..Len(optimized) : \E j \in 1..Len(csections) :
          /\ csections[j].name = optimized[i].section
          /\ RLen(Strip(csections[j].content)) > max_chunk_size

\* C6: the loop of _split_large_section ends for every content longer than
\* max_chunk_size, one without any whitespace or terminator too: a pass is
\* only made from a position before the end of the content, each pass
\* moves the position on by min_chunk_size at least, and the pass that
\* reaches the end of the content leaves the loop.
C6_SplitTerminates ==
    /\ [](cpc = "split" => current_pos < RLen(Strip(csections[si].content)))
    /\ [][cpc = "split" =>
             /\ current_pos' >= current_pos + min_chunk_size
             /\ cpc' = "split" => current_pos' < RLen(Strip(csections[si].content))]_vars

\* The loop is past its first pass over a content that is a single word.
C6_NoBoundaryContent ==
    /\ cpc = "split"
    /\ current_pos > 0
    /\ Len(csections[si].content) = 1
    /\ csections[si].content[1].c = "a"

\* C7: the chunk_index values of the list create_chunks returns are 0, 1,
\* 2, ... in list order, whatever sections were skipped and whatever pass
\* of a split appended no chunk.
C7_IndicesConsecutive ==
    cpc \in {"created", "validated", "optimized"} =>
        \A i \in 1..Len(all_chunks) : all_chunks[i].chunk_index = i - 1

\* A skipped section, then a section whose first pass appends no chunk
\* and whose later passes append several.
C7_SkippedAndEmptyPass ==
    /\ cpc = "created"
    /\ Len(csections) = 2
    /\ RLen(Strip(csections[1].content)) < min_chunk_size
    /\ RLen(Strip(csections[2].content)) > max_chunk_size
    /\ ChunkEnd(Strip(csections[2].content), 0) < min_chunk_size
    /\ Len(all_chunks) >= 2

---------------------------------------------------------------------------
(* Claims about GeminiClient, checked under SpecAdapter *)

Failures(log) == { i \in 1..Len(log) : ~log[i].ok }

\* C8: an operation calls the backend 3 times at most; it returns at the
\* first attempt whose response is valid and makes no attempt after it;
\* it raises after exactly 3 failed attempts, whatever their kinds, and
\* the error carries the message of the last one.
C8_RetryBudget ==
    /\ calls <= max_retries
    /\ Len(backend_log) <= calls
    /\ \A i \in 1..(Len(backend_log) - 1) : ~backend_log[i].ok
    /\ (backend_log # << >> /\ backend_log[Len(backend_log)].ok) =>
          apc = "returned" /\ calls = Len(backend_log)
    /\ apc = "returned" =>
          backend_log # << >> /\ backend_log[Len(backend_log)].ok
    /\ apc = "raised" =>
          /\ calls = 3
          /\ Failures(backend_log) = 1..3
          /\ error.msg = << "Gemini API call failed after ", "3", " attempts: " >>
                           \o backend_log[3].exc.msg
    /\ (apc \notin {"raised", "returned"} /\ Len(backend_log) = calls) => calls < 3

\* Three failed attempts of three kinds (authentication, content safety,
\* rate limit) ended the operation.
C8_ThreeKindsOfFailure ==
    /\ apc = "raised"
    /\ backend_log[1].exc.msg[1] = "API authentication failed: "
    /\ backend_log[2].exc.msg[1] = "Content blocked by safety filters: "
    /\ backend_log[3].exc.msg[1] = "API rate limit exceeded: "

\* The trimmed text of the response the operation returned from.
ReturnedFrom == Strip(backend_log[Len(backend_log)].response.text)

\* C9: the content a successful summarize_chunk returns has 600
\* characters at most; a longer valid response is cut to its first 597
\* characters and "...".
C9_ChunkSummaryLimit ==
    (apc = "returned" /\ call_type = "chunk_summarization") =>
        /\ RLen(result) <= 600
        /\ RLen(ReturnedFrom) > 600 => result = Cat(Take(ReturnedFrom, 597), << Run("p", 3) >>)
        /\ RLen(ReturnedFrom) <= 600 => result = ReturnedFrom

\* summarize_chunk returned from a response of more than 600 characters.
C9_LongChunkResponse ==
    /\ apc = "returned"
    /\ call_type = "chunk_summarization"
    /\ RLen(ReturnedFrom) > 600

\* C10: the content a successful aggregate_summaries returns has 3,000
\* characters at most, also when the response had more and went through
\* _truncate_structured_summary.
C10_FinalSummaryLimit ==
    (apc = "returned" /\ call_type = "summary_aggregation") => RLen(result) <= 3000

\* aggregate_summaries returned from a response of more than 3,000
\* characters that has header lines.
C10_LongAggregateResponse ==
    /\ apc = "returned"
    /\ call_type = "summary_aggregation"
    /\ RLen(ReturnedFrom) > 3000
    /\ \E i \in 1..Len(SplitLines(ReturnedFrom)) : IsHeaderLine(Strip(SplitLines(ReturnedFrom)[i]))

---------------------------------------------------------------------------
(* Claims about SummaryGenerator, checked under SpecOrchestrator and       *)
(* SpecParse                                                               *)

\* The chunks whose worker holds a slot of the semaphore.
SlotHolders == { i \in 1..Len(workers) : HoldsSlot(workers[i]) }

\* C11: at most 3 workers hold a slot, a backend call of summarize_chunk
\* is started and runs only while its worker holds a slot, and so at most
\* 3 backend calls of chunks are in flight at once.
C11_AtMostThreeInFlight ==
    /\ Cardinality(SlotHolders) <= 3
    /\ semaphore = 3 - Cardinality(SlotHolders)
    /\ \A i \in threads \ {0} : i \in SlotHolders
    /\ Cardinality(threads \ {0}) <= 3

\* More chunks than slots: three workers hold the slots and one waits.
C11_WorkerWaitsForSlot ==
    /\ opc = "fanout"
    /\ Cardinality(SlotHolders) = 3
    /\ \E i \in 1..Len(workers) : workers[i].pc = "waiting"

Succeeded == { i \in 1..Len(workers) : workers[i].pc = "ok" }

\* C13: when every chunk call has failed or timed out, generate_summary
\* ends with an error and aggregate_summaries is never invoked; on an
\* empty chunk list it ends with an error before any backend call.
C13_NoSummaryNoAggregate ==
    /\ agg_calls > 0 => Succeeded # {}
    /\ opc \notin {"input", "fanout"} /\ Succeeded = {} =>
           /\ opc = "raised"
           /\ raised = IF chunk_list = << >>
                        THEN "ValueError: No chunks provided for summarization"
                        ELSE "RuntimeError: All chunk summarizations failed"
           /\ agg_calls = 0 /\ agg.pc = "idle" /\ 0 \notin threads
           /\ summary_result = NoResult
    /\ opc # "input" /\ chunk_list = << >> =>
           /\ opc = "raised"
           /\ ~backend_called /\ threads = {} /\ workers = << >>

\* Every chunk of a request was tried and none was summarized, one by
\* exhausted retries and one by its timeout.
C13_AllChunksFailed ==
    /\ opc = "raised"
    /\ Len(chunk_list) >= 2
    /\ \E i \in 1..Len(workers) : workers[i].pc = "failed"
    /\ \E i \in 1..Len(workers) : workers[i].pc = "timeout"

\* C14: over n chunks of which k >= 1 were summarized, generate_summary
\* returns a result with chunk_count = n, exactly k chunk summaries,
\* success_rate = k / n and a non-empty list of sections.
C14_ResultCounts ==
    LET n == Len(chunk_list)
        k == Cardinality(Succeeded)
    IN  /\ opc = "returned" =>
               /\ k >= 1
               /\ raised = "None"
               /\ summary_result.chunk_count = n
               /\ Len(summary_result.chunk_summaries) = k
               /\ summary_result.success_rate = << k, n >>
               /\ summary_result.sections # << >>
        /\ opc = "raised" => k = 0 /\ summary_result = NoResult

\* A result over several chunks of which some, but not all, succeeded.
C14_PartialSuccess ==
    /\ opc = "returned"
    /\ Cardinality(Succeeded) >= 2
    /\ Cardinality(Succeeded) < Len(chunk_list)

\* C15: once a chunk summary exists generate_summary does not raise: when
\* the aggregate call fails, times out, or returns a text with fewer than
\* 3 recognized sections, it returns a result with a non-empty section list.
C15_DegradedNotFailed ==
    /\ chunk_summaries # << >> => opc \in {"aggregate", "returned"} /\ raised = "None"
    /\ agg.pc \in {"failed", "timeout"} =>
           /\ opc = "returned"
           /\ summary_result.sections # << >>
           /\ \A k \in 1..Len(summary_result.sections) :
                  summary_result.sections[k].summaries # << >>
    /\ agg.pc = "ok" =>
           /\ opc = "returned"
           /\ Len(summary_result.sections) >= 3

\* The aggregate call used up its retries and a result was returned.
C15_AggregateFailedResultReturned ==
    /\ opc = "returned"
    /\ agg.pc = "failed"
    /\ Len(summary_result.chunk_summaries) >= 2

\* C16: chunk_summaries holds exactly one entry for each chunk whose call
\* succeeded and none for the others, each entry with the chunk_index,
\* section and section_type of its chunk, in the order of the input chunks;
\* a worker that fails or times out changes no other worker, and a worker
\* that has ended keeps its outcome and summary.
C16_SummariesInInputOrder ==
    /\ [](opc \in {"aggregate", "returned"} =>
              /\ Len(chunk_summaries) = Cardinality(Succeeded)
              /\ \A k \in 1..Len(chunk_summaries) :
                     \E i \in Succeeded :
                        /\ Cardinality({ j \in Succeeded : j < i }) = k - 1
                        /\ chunk_summaries[k].chunk_index = chunk_list[i].chunk_index
                        /\ chunk_summaries[k].section = chunk_list[i].section
                        /\ chunk_summaries[k].section_type = chunk_list[i].section_type
                        /\ chunk_summaries[k].summary = workers[i].summary
                        /\ workers[i].summary \in SummaryKinds
              /\ opc = "returned" => summary_result.chunk_summaries = chunk_summaries)
    /\ [][opc = "fanout" =>
              \A i \in 1..Len(workers) :
                 /\ workers[i].pc \in {"ok", "failed", "timeout"} => workers'[i] = workers[i]
                 /\ workers'[i] # workers[i] =>
                        \A j \in 1..Len(workers) : j # i => workers'[j] = workers[j]]_vars

\* A result whose workers ended out of the order of the chunks, with a
\* failed or timed-out chunk ahead of a summarized one.
C16_LaterChunkFinishedFirst ==
    /\ opc = "returned"
    /\ out_of_order
    /\ Cardinality(Succeeded) >= 2
    /\ \E i \in 1..Len(workers) : \E j \in Succeeded :
           i < j /\ workers[i].pc \in {"failed", "timeout"}

\* The places of the line "**Title**" of a key in the text, and the places
\* of the sections with its title in the parsed list.
HeaderPlaces(key) == { i \in 1..Len(summary_text) : summary_text[i] = HeaderLine(key) }
SectionPlaces(key) == { k \in 1..Len(parsed) : parsed[k].title = KeyTitle(key) }

\* C17: a text with the header lines **Problem**, **Methods** and **Results**
\* parses into at least 3 sections with the titles Problem, Methods and
\* Results among them, in the order the headers appear; a text with no
\* header line parses into the 3 sections Overview, Key Findings, Conclusions.
C17_HeadersBecomeSections ==
    ppc = "done" =>
        LET keys == {"problem", "methods", "results"}
        IN  /\ (\A key \in keys : HeaderPlaces(key) # {}) =>
                   /\ Len(parsed) >= 3
                   /\ \A key \in keys : SectionPlaces(key) # {}
                   /\ \A a, b \in keys :
                          SetMin(HeaderPlaces(a)) < SetMin(HeaderPlaces(b)) =>
                              SetMin(SectionPlaces(a)) < SetMin(SectionPlaces(b))
            /\ (\A i \in 1..Len(summary_text) :
                    summary_text[i].blank \/ HeaderKey(summary_text[i]) = "none") =>
                   [k \in 1..Len(parsed) |-> parsed[k].title]
                       = << "Overview", "Key Findings", "Conclusions" >>

\* A text with the three header lines has been parsed.
C17_ThreeHeaderLinesParsed ==
    /\ ppc = "done"
    /\ \A key \in {"problem", "methods", "results"} : HeaderPlaces(key) # {}
    /\ \E i \in 1..Len(summary_text) : HeaderKey(summary_text[i]) = "none"

---------------------------------------------------------------------------
(* A further claim about GeminiClient, checked under SpecAdapter *)

\* A response that is missing, has no text, or has fewer than 10 characters
\* once trimmed.
Unusable(response) ==
    \/ ~response.present
    \/ ~response.has_text
    \/ RLen(Strip(response.text)) < 10

\* C18: an attempt the backend answered with an unusable response is a
\* failed attempt: it is one of the 3 calls, the operation does not return
\* from it, and it is followed by the sleep of 1 s (after the first) or
\* 2 s (after the second) and another attempt, or, as the third, by the
\* error of the operation, as after an attempt that raised.
C18_InvalidResponseIsFailure ==
    /\ \A k \in 1..Len(backend_log) :
           Unusable(backend_log[k].response) =>
               /\ ~backend_log[k].ok
               /\ backend_log[k].exc.type \in {"ValueError", "RuntimeError"}
               /\ k <= calls /\ k <= 3
               /\ k < 3 => Len(delays) >= k /\ delays[k] = (IF k = 1 THEN 1 ELSE 2)
               /\ k = 3 => apc = "raised" /\ Len(delays) = 2
               /\ k = Len(backend_log) /\ k < 3 => apc \in {"sleeping", "attempt", "in_flight"}
    /\ apc = "returned" => ~Unusable(backend_log[Len(backend_log)].response)

\* The operation returned at its third attempt, after the backend had
\* answered None and then a text of 9 characters.
C18_RetriedAfterInvalidResponses ==
    /\ apc = "returned"
    /\ Len(backend_log) = 3
    /\ backend_log[1].response = NoResponse
    /\ backend_log[1].exc = InvalidResponse(<< "Empty response from Gemini API" >>)
    /\ backend_log[2].response.has_text
    /\ RLen(Strip(backend_log[2].response.text)) = 9
    /\ delays = << 1, 2 >>

---------------------------------------------------------------------------
(* A further claim about ChunkManager, checked under SpecChunk *)

\* C19: for a single section whose trimmed content has 100 to 10,000
\* characters, create_chunks returns one chunk: its section is the name of
\* the section, its chunk_index 0, its content the trimmed content of the
\* section and its sentence_count at least 1.
C19_OneChunkForFittingSection ==
    (/\ cpc \in {"created", "validated", "optimized"}
     /\ Len(csections) = 1
     /\ RLen(Strip(csections[1].content)) >= 100
     /\ RLen(Strip(csections[1].content)) <= 10000) =>
        /\ Len(all_chunks) = 1
        /\ all_chunks[1].section = csections[1].name
        /\ all_chunks[1].chunk_index = 0
        /\ all_chunks[1].content = Strip(csections[1].content)
        /\ all_chunks[1].sentence_count >= 1

\* create_chunks has returned for a single section that fits once the
\* whitespace around it is trimmed, and that has no sentence end in it.
C19_TrimmedSectionChunked ==
    /\ cpc = "created"
    /\ Len(csections) = 1
    /\ RLen(Strip(csections[1].content)) = 100
    /\ Strip(csections[1].content) # csections[1].content
    /\ all_chunks # << >>

---------------------------------------------------------------------------
(* A further claim about SummaryGenerator, checked under SpecOrchestrator *)

\* C20: when the timeout of a chunk call or of the aggregate call fires,
\* no backend request of that operation is still running and none starts
\* later; the chunk is recorded as failed (no summary), its slot is given
\* back, and the step changes no other worker.
C20_TimeoutEndsBackendCall ==
    /\ [](\A i \in 1..Len(workers) : workers[i].pc = "timeout" => i \notin threads)
    /\ [](agg.pc = "timeout" => 0 \notin threads)
    /\ [](\A i \in 1..Len(workers) :
              workers[i].pc = "timeout" =>
                  /\ workers[i].summary = NoSummary
                  /\ i \notin SlotHolders
                  /\ semaphore = 3 - Cardinality(SlotHolders))
    /\ [][\A i \in 1..Len(workers) :
              workers[i].pc = "timeout" =>
                  /\ workers'[i] = workers[i]
                  /\ i \notin threads => i \notin threads']_vars
    /\ [][\A i \in 1..Len(workers) :
              (Len(workers') = Len(workers) /\ workers[i].pc # "timeout"
                  /\ workers'[i].pc = "timeout") =>
                  \A j \in 1..Len(workers) : j # i => workers'[j] = workers[j]]_vars

\* The timeout of a chunk call has fired while a sibling call is in flight
\* and another chunk waits for a slot.
C20_ChunkTimedOutAmongSiblings ==
    /\ opc = "fanout"
    /\ \E i \in 1..Len(workers) : workers[i].pc = "timeout"
    /\ \E i \in 1..Len(workers) : workers[i].pc = "in_flight"
    /\ \E i \in 1..Len(workers) : workers[i].pc = "waiting"

---------------------------------------------------------------------------
(* A claim of progress about SummaryGenerator, checked under               *)
(* SpecOrchestratorFair                                                    *)

\* C21: a request that has started ends with a SummaryResult or an error;
\* by then every worker has ended, each after holding a slot that it gave
\* back when it ended (ok, failed or timeout), and the 3 slots are free
\* when the aggregate call begins.
C21_RequestTerminates ==
    /\ (opc = "fanout") ~> (opc \in {"returned", "raised"})
    /\ [](opc \in {"aggregate", "returned", "raised"} =>
              /\ \A i \in 1..Len(workers) : workers[i].pc \in {"ok", "failed", "timeout"}
              /\ Len(workers) = Len(chunk_list)
              /\ semaphore = 3)
    /\ [][\A i \in 1..Len(workers) :
              (opc = "fanout" /\ workers'[i].pc \in {"ok", "failed", "timeout"}
                  /\ workers[i].pc \notin {"ok", "failed", "timeout"}) =>
                  /\ workers[i].pc \in {"in_flight", "sleeping"}
                  /\ semaphore' = semaphore + 1]_vars

\* A request over more chunks than slots has ended with a result, its
\* workers having ended in each of the three ways.
C21_FourWorkersAllEnded ==
    /\ opc = "returned"
    /\ Len(workers) > 3
    /\ semaphore = 3
    /\ \A pc \in {"ok", "failed", "timeout"} :
           \E i \in 1..Len(workers) : workers[i].pc = pc

---------------------------------------------------------------------------
(* Further claims about GeminiClient, checked under SpecAdapter *)

\* C22: the waits of an operation are 1 second after its first failed
\* attempt and 2 seconds after its second; there is none before the first
\* attempt, none after the third failed attempt and none after an attempt
\* that succeeded.
C22_BackoffDelays ==
    LET failed == Cardinality(Failures(backend_log))
    IN  /\ Len(delays) = IF failed < 3 THEN failed ELSE 2
        /\ \A i \in 1..Len(delays) : delays[i] = IF i = 1 THEN 1 ELSE 2
        /\ backend_log = << >> => delays = << >>
        /\ apc = "sleeping" <=> Len(delays) = attempt + 1
        /\ apc = "raised" => failed = 3 /\ Len(delays) = 2
        /\ apc = "returned" => Len(delays) = Len(backend_log) - 1

\* The operation has given up after its third failed attempt, having
\* waited twice.
C22_GaveUpAfterTwoWaits ==
    /\ apc = "raised"
    /\ calls = 3
    /\ delays = << 1, 2 >>
    /\ \A i \in 1..3 : backend_log[i].exc.type = "RuntimeError"

---------------------------------------------------------------------------
(* Further claims about ChunkManager, checked under SpecChunk *)

\* The class of the character of t at position pos (from 0).
CharAt(t, pos) == Slice(t, pos, pos + 1)[1].c

\* The window of the pass of _split_large_section that comes next ends
\* before the section does, so that _find_optimal_break_point is called;
\* its last 20% has no sentence terminator and no line break, and it has
\* two words or more.
WordFallbackWindow ==
    /\ cpc = "split"
    /\ LET content == Strip(csections[si].content)
           max_end == Min(current_pos + max_chunk_size, RLen(content))
           region  == Slice(content, max_end - 2000, max_end)
       IN  /\ max_end < RLen(content)
           /\ \A j \in 1..Len(region) : region[j].c \notin {"p", "n"}
           /\ WordCount(Slice(content, current_pos, max_end)) >= 2

\* C23: in such a window _find_optimal_break_point returns a position b,
\* start < b < max_end, that is the end of the last complete word before
\* the final word of the window: the character before b is the last of a
\* word, the character at b is whitespace and only the final word follows.
C23_BreakAtWordEnd ==
    WordFallbackWindow =>
        LET content == Strip(csections[si].content)
            max_end == Min(current_pos + max_chunk_size, RLen(content))
            b       == _find_optimal_break_point(content, current_pos, max_end)
        IN  /\ current_pos < b
            /\ b < max_end
            /\ ~IsWs(CharAt(content, b - 1))
            /\ IsWs(CharAt(content, b))
            /\ WordCount(Slice(content, b, max_end)) = 1

\* Such a window with two spaces between two of its words.
C23_WindowWithDoubleSpace ==
    /\ WordFallbackWindow
    /\ LET content == Strip(csections[si].content)
           window  == Slice(content, current_pos,
                            Min(current_pos + max_chunk_size, RLen(content)))
       IN  \E j \in 1..Len(window) : window[j].c = "s" /\ window[j].n >= 2

---------------------------------------------------------------------------
(* A claim about _build_aggregation_prompt, checked under SpecPrompt *)

\* The places of the list whose summary has more than 20 characters once
\* stripped, and no summary of more than 20 characters and the same first
\* 100 characters, whatever the case, before it.
FirstOfItsKind ==
    { i \in 1..Len(summaries) :
         /\ summaries[i].length > 20
         /\ \A j \in 1..(i - 1) :
                summaries[j].length > 20 =>
                    \/ summaries[j].prefix # summaries[i].prefix
                    \/ (summaries[j].length < 100 \/ summaries[i].length < 100)
                          /\ summaries[j].length # summaries[i].length }

\* C24: the prompt carries exactly the summaries that are the first of
\* their kind, stripped, in the order of the list.
C24_FirstOfEachKindKept ==
    prompt_pc = "done" =>
        /\ Len(unique_summaries) = Cardinality(FirstOfItsKind)
        /\ \A k \in 1..Len(unique_summaries) :
               \E i \in FirstOfItsKind :
                  /\ Cardinality({ j \in FirstOfItsKind : j < i }) = k - 1
                  /\ unique_summaries[k].id = summaries[i].id
                  /\ unique_summaries[k].upper = summaries[i].upper
                  /\ unique_summaries[k].length = summaries[i].length
                  /\ unique_summaries[k].pad = 0

\* A prompt was built from a list with a summary of 20 characters, then a
\* summary, then the same summary in upper case with whitespace around it.
C24_DuplicateAndShortDropped ==
    /\ prompt_pc = "done"
    /\ Len(summaries) = 3
    /\ summaries[1].length = 20
    /\ summaries[2].id = summaries[3].id
    /\ ~summaries[2].upper /\ summaries[3].upper
    /\ Len(unique_summaries) = 1

---------------------------------------------------------------------------
(* Further claims about SummaryGenerator, checked under SpecOrchestrator   *)

\* The places of the chunk summaries of a section type.
SummariesOfType(t) ==
    { k \in 1..Len(chunk_summaries) : chunk_summaries[k].section_type = t }

\* C25: when the aggregate call failed or timed out, the sections of the
\* result are one per section type of the chunk summaries, in the order the
\* types first appear, each titled with the type in title case and holding
\* the summaries of the type in the order of the chunks; no section
\* 'Summary' stands for a missing one.
C25_FallbackGroupsByType ==
    agg.pc \in {"failed", "timeout"} =>
        LET types == { chunk_summaries[k].section_type : k \in 1..Len(chunk_summaries) }
            secs  == summary_result.sections
        IN  /\ types # {}
            /\ Len(secs) = Cardinality(types)
            /\ \A n \in 1..Len(secs) : secs[n].title # "Summary"
            /\ \A t \in types :
                   \E n \in 1..Len(secs) :
                      /\ secs[n].title = (IF t = "abstract" THEN "Abstract" ELSE "Methodology")
                      /\ n - 1 = Cardinality({ u \in types :
                                    SetMin(SummariesOfType(u)) < SetMin(SummariesOfType(t)) })
                      /\ Len(secs[n].summaries) = Cardinality(SummariesOfType(t))
                      /\ \A k \in SummariesOfType(t) :
                             secs[n].summaries[1 + Cardinality({ j \in SummariesOfType(t) : j < k })]
                                = chunk_summaries[k].summary.id

\* The aggregate call timed out on three summaries or more, the first of a
\* methodology chunk: the groups do not come in the order of the registry.
C25_TimedOutWithTwoGroups ==
    /\ opc = "returned"
    /\ agg.pc = "timeout"
    /\ Len(chunk_summaries) >= 3
    /\ chunk_summaries[1].section_type = "methodology"
    /\ SummariesOfType("abstract") # {}

---------------------------------------------------------------------------
(* Further claims about the summary parser, checked under SpecParse        *)

\* The sections the header lines of the aggregated text gave.
RecognizedSections == ParseLines(summary_text, 1, "none", << >>, << >>)

\* The number of words of a section made by _create_simple_sections.
SectionWords(k) == parsed[k].to - parsed[k].from

\* The sections of the result are Overview, Key Findings and Conclusions,
\* their contents consecutive runs of the words of the aggregated text that
\* cover every word once, in order.
SimpleSectionsCoverText ==
    /\ Len(parsed) = 3
    /\ parsed[1].title = "Overview"
    /\ parsed[2].title = "Key Findings"
    /\ parsed[3].title = "Conclusions"
    /\ parsed[1].from = 0
    /\ parsed[1].to = parsed[2].from
    /\ parsed[2].to = parsed[3].from
    /\ parsed[3].to = TextWords(summary_text)
    /\ \A k \in 1..3 : SectionWords(k) >= 0

\* C26 as stated: when fewer than 3 sections are recognized the result is
\* the three sections Overview, Key Findings, Conclusions, consecutive runs
\* of the words covering every word once in order, and the three sections
\* have equal word counts.
C26_EqualWordCounts ==
    (ppc = "done" /\ Len(RecognizedSections) < MinSections) =>
        /\ SimpleSectionsCoverText
        /\ SectionWords(1) = SectionWords(2)
        /\ SectionWords(2) = SectionWords(3)

\* C26 amended: the three sections cover every word once in order; the
\* first two have a third of the word count, rounded down, and the last has
\* the remaining words, which are 0, 1 or 2 more; the counts are equal
\* exactly when the word count is a multiple of 3.
C26_ThirdsRoundedDown ==
    (ppc = "done" /\ Len(RecognizedSections) < MinSections) =>
        LET n == TextWords(summary_text)
        IN  /\ SimpleSectionsCoverText
            /\ SectionWords(1) = n \div 3
            /\ SectionWords(2) = n \div 3
            /\ SectionWords(3) = n - 2 * (n \div 3)
            /\ SectionWords(3) - SectionWords(1) = n % 3
            /\ (SectionWords(1) = SectionWords(3)) <=> (n % 3 = 0)

\* An aggregated text of 13 words without header lines was parsed: the
\* sections have 4, 4 and 5 words.
C26_ThirteenWordsSplit ==
    /\ ppc = "done"
    /\ Len(RecognizedSections) < MinSections
    /\ TextWords(summary_text) = 13
    /\ SectionWords(1) = 4
    /\ SectionWords(3) = 5

---------------------------------------------------------------------------
(* Claims about the length enforcement of GeminiClient, under SpecAdapter  *)

\* The lines of the returned content, and the trimmed lines of the response
\* it was made from.
ResultLines == SplitLines(result)
ResponseLines ==
    LET lines == SplitLines(ReturnedFrom)
    IN  [i \in 1..Len(lines) |-> Strip(lines[i])]

\* The header lines of a list of lines, in order.
HeaderLines(lines) == SelectSeq(lines, IsHeaderLine)

\* The lines of the body of the header at place h: those after it up to
\* the next header line or the end.
BodyPlaces(lines, h) ==
    { j \in (h + 1)..Len(lines) : \A k \in (h + 1)..j : ~IsHeaderLine(lines[k]) }

\* The number of words of the body of the header at place h.
BodyWords(lines, h) ==
    SumTo([j \in 1..Len(lines) |->
               IF j \in BodyPlaces(lines, h) THEN Len(SplitWords(lines[j])) ELSE 0],
          Len(lines))

\* C27: from a response of more than 3,000 characters the returned content
\* has the header lines of the response, verbatim and in order, and after
\* each header a body of at most 50 words in all that ends with a blank
\* line, whether the body was one line or several in the response.
C27_BodyAtMostFiftyWords ==
    (apc = "returned" /\ call_type = "summary_aggregation" /\ RLen(ReturnedFrom) > 3000) =>
        /\ HeaderLines(ResultLines) = HeaderLines(ResponseLines)
        /\ \A h \in 1..Len(ResultLines) :
               IsHeaderLine(ResultLines[h]) =>
                   /\ BodyWords(ResultLines, h) <= 50
                   /\ BodyPlaces(ResultLines, h) # {} =>
                          ResultLines[SetMax(BodyPlaces(ResultLines, h))] = << >>

\* aggregate_summaries returned from a response of more than 3,000
\* characters in which a header is followed by several body lines.
C27_BodyOfSeveralLines ==
    /\ apc = "returned"
    /\ call_type = "summary_aggregation"
    /\ RLen(ReturnedFrom) > 3000
    /\ \E h \in 1..Len(ResponseLines) :
           /\ IsHeaderLine(ResponseLines[h])
           /\ Cardinality({ j \in BodyPlaces(ResponseLines, h) : ResponseLines[j] # << >> }) >= 2
    /\ \E h \in 1..Len(ResultLines) :
           IsHeaderLine(ResultLines[h]) /\ BodyWords(ResultLines, h) = 160

\* C29: the content a successful summarize_chunk or aggregate_summaries
\* returns has 10 characters or more when trimmed, also after
\* _enforce_length_limits cut a chunk response to 600 characters or handed
\* an aggregation response of more than 3,000 characters, with header lines
\* or without, to _truncate_structured_summary.
C29_ReturnedContentLongEnough ==
    apc = "returned" => RLen(Strip(result)) >= MinResponseLength

\* aggregate_summaries returned from a response of more than 3,000
\* characters of prose, without a header line: the content is empty.
C29_ProseWithoutHeaders ==
    /\ apc = "returned"
    /\ call_type = "summary_aggregation"
    /\ RLen(ReturnedFrom) > FinalSummaryLimit
    /\ HeaderLines(ResponseLines) = << >>
    /\ result = << >>

---------------------------------------------------------------------------
(* Claims about the order of the chunks of a split, under SpecChunk       *)

RECURSIVE EmittedEnds(_, _, _)
\* Where the chunks end that the passes of _split_large_section over
\* content append, for the passes that start at pos and before until.
EmittedEnds(content, pos, until) ==
    IF pos >= until \/ pos >= RLen(content) THEN << >>
    ELSE LET chunk_end == ChunkEnd(content, pos)
             appended  == RLen(Strip(Slice(content, pos, chunk_end))) >= min_chunk_size
         IN  (IF appended THEN << chunk_end >> ELSE << >>)
                \o EmittedEnds(content, NextPos(pos, chunk_end), until)

\* A split is running, or the split of the section before has just ended.
SplitSeen ==
    \/ cpc = "split"
    \/ /\ cpc = "loop"
       /\ si > 1
       /\ RLen(Strip(csections[si - 1].content)) > max_chunk_size

\* The content being split, or split last.
SplitContent ==
    IF cpc = "split" THEN Strip(csections[si].content) ELSE Strip(csections[si - 1].content)

\* Where the chunks of the list chunks end in SplitContent.
SplitEnds ==
    EmittedEnds(SplitContent, 0, IF cpc = "split" THEN current_pos ELSE RLen(SplitContent))

\* C28: in the split of a section every chunk appended ends strictly later
\* in the section than the chunk appended before it, and no chunk is
\* appended after a chunk that reaches the end of the section.
C28_ChunksEndLater ==
    SplitSeen =>
        /\ Len(SplitEnds) = Len(chunks)
        /\ \A k \in 2..Len(SplitEnds) : SplitEnds[k] > SplitEnds[k - 1]
        /\ \A k \in 1..(Len(SplitEnds) - 1) : SplitEnds[k] < RLen(SplitContent)

\* A split has ended whose last three chunks all end at the end of the
\* section: the last two are the last 200 and the last 100 characters.
C28_TailChunksAppended ==
    /\ cpc = "loop"
    /\ SplitSeen
    /\ Len(chunks) >= 3
    /\ Len(SplitEnds) = Len(chunks)
    /\ \A k \in (Len(chunks) - 2)..Len(chunks) : SplitEnds[k] = RLen(SplitContent)
    /\ chunks[Len(chunks) - 1].character_count = overlap_size
    /\ chunks[Len(chunks)].character_count = min_chunk_size

---------------------------------------------------------------------------
(* Claims about the request of the aggregate call, under SpecOrchestrator *)

\* C30: when aggregate_summaries was called, the prompt it sent carries a
\* chunk summary at least, whatever summaries the workers returned.
C30_PromptCarriesSummary ==
    agg_calls > 0 => Len(agg_prompt) >= 1

\* aggregate_summaries was called with summaries none of which has more
\* than 20 characters: the prompt carries none of them.
C30_OnlyShortSummaries ==
    /\ agg_calls = 1
    /\ chunk_summaries # << >>
    /\ \A k \in 1..Len(chunk_summaries) :
           /\ chunk_summaries[k].summary.length >= MinResponseLength
           /\ chunk_summaries[k].summary.length <= MinSummaryLength
    /\ agg_prompt = << >>

=============================================================================
